---- MODULE Spec2Model ----
(***************************************************************************)
(* A model of the Go decision core of src/get_move.ts: the board model and *)
(* chain engine, the legality adjudicator, the eye and territory analyzer, *)
(* the move generators, the pattern matcher, the persona selector and the  *)
(* orchestrator getMove.                                                   *)
(*                                                                         *)
(* Representation.  A Board is a function from the grid positions <<x,y>>  *)
(* to point records; an offline cell (null in the source) is NullPoint.    *)
(* A reference to a PointState is the position of the point in its board   *)
(* container; Null and Undefined stand for the two nullish values a lookup *)
(* board[x]?.[y] can give.  Lists (chains, liberties, move lists) are      *)
(* sequences in the order the source builds them.  A string is a sequence  *)
(* of one-character strings.                                               *)
(***************************************************************************)
EXTENDS Integers, Sequences, FiniteSets, TLC

\* ------------------------------------------------------------------ bounds
\* Side of the square boards that are explored.
BoardSize == 3
\* Most cells other than '.' and most offline cells a drawn SimpleBoard holds.
MaxMarked == 4
MaxOffline == 1
\* Most cells other than '.' of the positions the adjudicator is given.
ValidMaxMarked == 2
\* Most cells other than '.' and most offline cells of the positions the
\* orchestrator is given.
MoveMaxMarked == 1
MoveMaxOffline == 0
\* Most cells other than '.' and most offline cells of the boards
\* updateCaptures is given.
CaptureMaxMarked == 6
CaptureMaxOffline == 0
\* Most cells other than '.' and most offline cells of the boards the pattern
\* matcher is given.
PatternMaxMarked == 3
PatternMaxOffline == 0
\* Side of the boards of the scenarios.
ScenarioSize == 5
\* Side, most cells other than '.' and most offline cells of the boards
\* getCornerMove is given.
CornerSize == 6
CornerMaxMarked == 2
CornerMaxOffline == 1
\* Most cells other than '.' and most offline cells of the boards
\* getSurroundMove is given.
SurroundMaxMarked == 3
SurroundMaxOffline == 1
\* Most cells other than '.' and most offline cells of the boards the eye
\* moves are looked for on.
EyeMaxMarked == 3
EyeMaxOffline == 1
\* Most cells other than '.' and most offline cells of the boards whose
\* territory is looked at.
TerritoryMaxMarked == 3
TerritoryMaxOffline == 1
\* Most cells other than '.' and most offline cells of the boards on which
\* the two paths of the adjudicator are compared.
FastMaxMarked == 1
FastMaxOffline == 1
\* Most cells other than '.' and most offline cells of the boards whose
\* effective liberties are computed.
EffectiveMaxMarked == 3
EffectiveMaxOffline == 1
\* Most cells other than '.' and most offline cells of the boards on which
\* a stone is placed.
PlacementMaxMarked == 3
PlacementMaxOffline == 1

Coords == 0 .. (BoardSize - 1)
Pos == Coords \X Coords

\* ------------------------------------------------------------ enums, types
Colors == {"Black", "White", "Empty"}
Players == {"Black", "White"}

\* The nullish results of board[x]?.[y]: null (an offline cell) and undefined
\* (outside the grid).
Null == <<-1, -1>>
Undefined == <<-2, -2>>

isNotNullish(ref) == ref # Null /\ ref # Undefined

\* liberties: null, as blankPointState and clearChains leave it.
NullLiberties == <<Null>>

NullPoint == [color |-> "null", chain |-> <<>>, liberties |-> NullLiberties, x |-> -1, y |-> -1]

blankPointState(color, x, y) ==
  [color |-> color, chain |-> <<>>, liberties |-> NullLiberties, x |-> x, y |-> y]

\* liberties ?? []
LibertiesOrEmpty(libs) == IF libs = NullLiberties THEN <<>> ELSE libs

\* ------------------------------------------------------- sequence helpers
Range(s) == {s[i] : i \in 1 .. Len(s)}

InSeq(e, s) == \E i \in 1 .. Len(s) : s[i] = e

RECURSIVE Flat(_)
Flat(ss) == IF Len(ss) = 0 THEN <<>> ELSE Head(ss) \o Flat(Tail(ss))

\* array.filter over a sequence of references, with the test given as a set.
RECURSIVE FilterIn(_, _)
FilterIn(s, keep) ==
  IF Len(s) = 0 THEN <<>>
  ELSE IF Head(s) \in keep THEN <<Head(s)>> \o FilterIn(Tail(s), keep)
       ELSE FilterIn(Tail(s), keep)

\* board[0].length: the side of a board.
LengthOf(board) == CHOOSE n \in 1 .. Cardinality(DOMAIN board) : n * n = Cardinality(DOMAIN board)

\* The positions of a grid of side n.
Grid(n) == {<<x, y>> : x \in 0 .. (n - 1), y \in 0 .. (n - 1)}

\* The positions of a grid of side n in the order of the scans
\* "for x ... for y ...".
ScanOrder(n) == [k \in 1 .. (n * n) |-> <<(k - 1) \div n, (k - 1) % n>>]

\* The positions of a board in scan order.
ScanOrderOf(board) == ScanOrder(LengthOf(board))

\* ------------------------------------------------------------- 4.A  board
\* board[x]?.[y] as a reference.
At(board, x, y) ==
  IF <<x, y>> \in DOMAIN board
    THEN (IF board[<<x, y>>].color = "null" THEN Null ELSE <<x, y>>)
    ELSE Undefined

\* point?.color for a reference into board ("undefined" for a nullish one).
ColorOf(board, ref) == IF isNotNullish(ref) THEN board[ref].color ELSE "undefined"

\* findNeighbors with the west neighbour left out.
findNeighbors_NoWest(board, x, y) ==
  [north |-> At(board, x, y + 1),
   east  |-> At(board, x + 1, y),
   south |-> At(board, x, y - 1),
   west  |-> Undefined]

findNeighbors(board, x, y) ==
  [north |-> At(board, x, y + 1),
   east  |-> At(board, x + 1, y),
   south |-> At(board, x, y - 1),
   west  |-> At(board, x - 1, y)]

getArrayFromNeighbor(nb) ==
  SelectSeq(<<nb.north, nb.east, nb.south, nb.west>>, isNotNullish)

\* boardFromSimpleBoard with the column and the row of the text exchanged.
boardFromSimpleBoard_Transposed(simpleBoard) ==
  [p \in Grid(Len(simpleBoard)) |->
     LET char == simpleBoard[p[2] + 1][p[1] + 1]
     IN  IF char = "#" THEN NullPoint
         ELSE IF char = "X" THEN blankPointState("Black", p[1], p[2])
         ELSE IF char = "O" THEN blankPointState("White", p[1], p[2])
         ELSE blankPointState("Empty", p[1], p[2])]

boardFromSimpleBoard(simpleBoard) ==
  [p \in Grid(Len(simpleBoard)) |->
     LET char == simpleBoard[p[1] + 1][p[2] + 1]
     IN  IF char = "#" THEN NullPoint
         ELSE IF char = "X" THEN blankPointState("Black", p[1], p[2])
         ELSE IF char = "O" THEN blankPointState("White", p[1], p[2])
         ELSE blankPointState("Empty", p[1], p[2])]

simpleBoardFromBoard(board) ==
  [c \in 1 .. LengthOf(board) |->
     [r \in 1 .. LengthOf(board) |->
        LET point == board[<<c - 1, r - 1>>]
        IN  IF point.color = "null" THEN "#"
            ELSE IF point.color = "Black" THEN "X"
            ELSE IF point.color = "White" THEN "O"
            ELSE "."]]

boardStringFromBoard(board) == Flat(simpleBoardFromBoard(board))

\* getBoardCopy handing back the object it was given.
getBoardCopy_Alias(board) == [alias |-> TRUE, board |-> board]

\* structuredClone: a fresh object (alias: whether a write to the result is a
\* write to the argument).
getBoardCopy(board) == [alias |-> FALSE, board |-> board]

clearChains(board) ==
  [p \in DOMAIN board |->
     IF board[p].color = "null" THEN board[p]
     ELSE [board[p] EXCEPT !.chain = <<>>, !.liberties = NullLiberties]]

contains(arr, ref) == InSeq(ref, arr)

isPointInChain(ref, chain) == InSeq(ref, chain)

\* One pass of the forEach over the neighbours of currentPoint in
\* findAdjacentPointsInChain; st = [checked, adjacent, stack].
RECURSIVE floodNeighbors(_, _, _, _)
floodNeighbors(board, currentPoint, nbrs, st) ==
  IF Len(nbrs) = 0 THEN st
  ELSE LET neighbor == Head(nbrs)
           add == /\ board[neighbor].color = board[currentPoint].color
                  /\ neighbor \notin st.checked
           st1 == [checked  |-> st.checked \cup {neighbor},
                   adjacent |-> IF add THEN Append(st.adjacent, neighbor) ELSE st.adjacent,
                   stack    |-> IF add THEN Append(st.stack, neighbor) ELSE st.stack]
       IN  floodNeighbors(board, currentPoint, Tail(nbrs), st1)

\* One turn of the while loop of findAdjacentPointsInChain, the stack not
\* being empty: the last point is popped and its neighbours are gone through.
floodStep(board, st) ==
  LET currentPoint == st.stack[Len(st.stack)]
      popped == [checked  |-> st.checked \cup {currentPoint},
                 adjacent |-> st.adjacent,
                 stack    |-> SubSeq(st.stack, 1, Len(st.stack) - 1)]
      nbrs == getArrayFromNeighbor(findNeighbors(board, currentPoint[1], currentPoint[2]))
  IN  floodNeighbors(board, currentPoint, nbrs, popped)

\* The while loop of findAdjacentPointsInChain.
RECURSIVE floodLoop(_, _)
floodLoop(board, st) ==
  IF Len(st.stack) = 0 THEN st.adjacent
  ELSE floodLoop(board, floodStep(board, st))

findAdjacentPointsInChain(board, x, y) ==
  IF At(board, x, y) = Null THEN <<>>
  ELSE floodLoop(board, [checked |-> {}, adjacent |-> <<<<x, y>>>>, stack |-> <<<<x, y>>>>])

\* Appends to acc, a list standing for the insertion-ordered Set, the
\* elements of refs that are not in it yet.
RECURSIVE addAll(_, _)
addAll(acc, refs) ==
  IF Len(refs) = 0 THEN acc
  ELSE addAll(IF InSeq(Head(refs), acc) THEN acc ELSE Append(acc, Head(refs)), Tail(refs))

RECURSIVE allNeighborsFrom(_, _, _, _)
allNeighborsFrom(board, chain, i, acc) ==
  IF i > Len(chain) THEN acc
  ELSE LET point == chain[i]
           outside(ref) == ~isPointInChain(ref, chain)
           found == SelectSeq(getArrayFromNeighbor(findNeighbors(board, point[1], point[2])),
                              outside)
       IN  allNeighborsFrom(board, chain, i + 1, addAll(acc, found))

\* getAllNeighbors gathering into a list instead of a Set.
getAllNeighbors_NoSet(board, chain) ==
  LET outside(ref) == ~isPointInChain(ref, chain)
  IN  Flat([i \in 1 .. Len(chain) |->
              SelectSeq(getArrayFromNeighbor(findNeighbors(board, chain[i][1], chain[i][2])),
                        outside)])

getAllNeighbors(board, chain) == allNeighborsFrom(board, chain, 1, <<>>)

findLibertiesForChain(board, chain) ==
  LET isEmpty(ref) == board[ref].color = "Empty"
  IN  SelectSeq(getAllNeighbors(board, chain), isEmpty)

getPlayerNeighbors(board, chain) ==
  LET isPiece(ref) == board[ref].color # "Empty"
  IN  SelectSeq(getAllNeighbors(board, chain), isPiece)

\* The double loop of updateChains from scan position k on.
RECURSIVE updateChainsFrom(_, _)
updateChainsFrom(board, k) ==
  IF k > Cardinality(DOMAIN board) THEN board
  ELSE LET p == ScanOrderOf(board)[k]
           point == board[p]
           \* The chain of the point written into its members.
           chained(chainMembers) ==
             LET libertiesForChain == findLibertiesForChain(board, chainMembers)
                 id == <<point.x, point.y>>
                 members == Range(chainMembers)
             IN  [q \in DOMAIN board |->
                    IF q \in members
                      THEN [board[q] EXCEPT !.chain = id,
                                            !.liberties = libertiesForChain]
                      ELSE board[q]]
       IN  IF point.color = "null" \/ point.chain # <<>>
             THEN updateChainsFrom(board, k + 1)
             ELSE updateChainsFrom(chained(findAdjacentPointsInChain(board, p[1], p[2])),
                                   k + 1)

updateChains(board, resetChains) ==
  updateChainsFrom(IF resetChains THEN clearChains(board) ELSE board, 1)

\* liberties?.length ?? dflt
LengthOr(libs, dflt) == IF libs = NullLiberties THEN dflt ELSE Len(libs)

\* The chain ids in the order getAllChains first meets them (the key order of
\* its object: the ids are not integer-like keys).
chainIdsInScanOrder(board) ==
  LET analyzed(p) == board[p].color # "null" /\ board[p].chain # <<>>
      idOf == [k \in 1 .. Len(SelectSeq(ScanOrderOf(board), analyzed)) |->
                 board[SelectSeq(ScanOrderOf(board), analyzed)[k]].chain]
  IN  addAll(<<>>, idOf)

\* A list of chains, each the list of its points in scan order.
getAllChains(board) ==
  LET ids == chainIdsInScanOrder(board)
  IN  [i \in 1 .. Len(ids) |->
         LET member(p) == board[p].color # "null" /\ board[p].chain = ids[i]
         IN  SelectSeq(ScanOrderOf(board), member)]

\* chains.find((chain) => chain[0].chain === chainId); <<>> when there is none.
findChainById(board, chains, chainId) ==
  LET hit(chain) == board[chain[1]].chain = chainId
      found == SelectSeq(chains, hit)
  IN  IF Len(found) = 0 THEN <<>> ELSE found[1]

findCapturedChainOfColor(board, chainList, playerColor) ==
  LET captured(chain) == /\ board[chain[1]].color = playerColor
                         /\ LengthOr(board[chain[1]].liberties, -1) = 0
  IN  SelectSeq(chainList, captured)

\* findAllCapturedChains looking at the chains of the player who moved first.
findAllCapturedChains_FriendlyFirst(board, chainList, playerWhoMoved) ==
  LET opposingPlayer == IF playerWhoMoved = "White" THEN "Black" ELSE "White"
      enemyChainsToCapture == findCapturedChainOfColor(board, chainList, opposingPlayer)
      friendlyChainsToCapture == findCapturedChainOfColor(board, chainList, playerWhoMoved)
  IN  IF Len(friendlyChainsToCapture) > 0 THEN friendlyChainsToCapture
      ELSE IF Len(enemyChainsToCapture) > 0 THEN enemyChainsToCapture
      ELSE <<>>

\* null (nothing captured) is the empty list: updateCaptures treats them alike.
findAllCapturedChains(board, chainList, playerWhoMoved) ==
  LET opposingPlayer == IF playerWhoMoved = "White" THEN "Black" ELSE "White"
      enemyChainsToCapture == findCapturedChainOfColor(board, chainList, opposingPlayer)
      friendlyChainsToCapture == findCapturedChainOfColor(board, chainList, playerWhoMoved)
  IN  IF Len(enemyChainsToCapture) > 0 THEN enemyChainsToCapture
      ELSE IF Len(friendlyChainsToCapture) > 0 THEN friendlyChainsToCapture
      ELSE <<>>

captureChain(board, chain) ==
  [p \in DOMAIN board |->
     IF InSeq(p, chain)
       THEN [board[p] EXCEPT !.color = "Empty", !.chain = <<>>, !.liberties = <<>>]
       ELSE board[p]]

\* resetChainsById that resets the chain of the first id only, the chain of
\* the point of the move.
resetChainsById_PointOnly(board, chainIds) ==
  [p \in DOMAIN board |->
     IF board[p].color = "null" \/ board[p].chain # chainIds[1] THEN board[p]
     ELSE [board[p] EXCEPT !.chain = <<>>, !.liberties = <<>>]]

resetChainsById(board, chainIds) ==
  [p \in DOMAIN board |->
     IF board[p].color = "null" \/ ~InSeq(board[p].chain, chainIds) THEN board[p]
     ELSE [board[p] EXCEPT !.chain = <<>>, !.liberties = <<>>]]

updateCaptures(board, playerWhoMoved, resetChains) ==
  LET \* The board after updateChains, with the chains to capture taken off.
      captured(chained) ==
        LET removed(chainsToCapture) ==
              IF Len(chainsToCapture) = 0 THEN chained
              ELSE updateChains(captureChain(chained, Flat(chainsToCapture)), TRUE)
        IN  removed(findAllCapturedChains(chained, getAllChains(chained), playerWhoMoved))
  IN  captured(updateChains(board, resetChains))

\* The call evaluateMoveResult(board, x, y, player, resetChains) as the pair
\* of the object it was given, as the call leaves it, and the board returned.
\* The writes go to the object getBoardCopy returned.
evaluateMoveResult(board, x, y, player, resetChains) ==
  LET copy == getBoardCopy(board)
      point == At(copy.board, x, y)
      \* The stone placed on the copy and the chains around it reset.
      placed == [copy.board EXCEPT ![point].color = player]
      neighbors(found) == <<copy.board[point].chain>> \o
                            [i \in 1 .. Len(found) |-> board[found[i]].chain]
      chainIdsToUpdate == neighbors(getArrayFromNeighbor(findNeighbors(board, x, y)))
      outcome(evaluationBoard) ==
        [input  |-> IF copy.alias THEN evaluationBoard ELSE board,
         result |-> evaluationBoard]
  IN  IF ~isNotNullish(point) THEN [input |-> board, result |-> board]
      ELSE outcome(updateCaptures(resetChainsById(placed, chainIdsToUpdate), player,
                                  resetChains))

\* The evaluation board alone, for the callers that read nothing else.
evaluationBoardOf(board, x, y, player, resetChains) ==
  evaluateMoveResult(board, x, y, player, resetChains).result

\* ------------------------------------------------------- 4.B  adjudicator
\* Math.round(Math.sqrt(n))
RoundSqrt(n) ==
  IF n = 0 THEN 0 ELSE CHOOSE r \in 1 .. n : r * r - r < n /\ n <= r * r + r

\* getColorOnBoardString reading the text row by row.
getColorOnBoardString_RowMajor(boardString, x, y) ==
  LET boardSize == RoundSqrt(Len(boardString))
      i == y * boardSize + x
      char == IF i >= 0 /\ i < Len(boardString) THEN boardString[i + 1] ELSE "undefined"
  IN  IF char = "X" THEN "Black"
      ELSE IF char = "O" THEN "White"
      ELSE IF char = "." THEN "Empty"
      ELSE "null"

\* null is "null".
getColorOnBoardString(boardString, x, y) ==
  LET boardSize == RoundSqrt(Len(boardString))
      i == x * boardSize + y
      char == IF i >= 0 /\ i < Len(boardString) THEN boardString[i + 1] ELSE "undefined"
  IN  IF char = "X" THEN "Black"
      ELSE IF char = "O" THEN "White"
      ELSE IF char = "." THEN "Empty"
      ELSE "null"

\* findAdjacentLibertiesForPoint taking every neighbouring point for a liberty.
findAdjacentLibertiesForPoint_AnyPoint(board, x, y) ==
  LET liberty(ref) == IF isNotNullish(ref) THEN ref ELSE Null
      liberties(neighbors) ==
        [north |-> liberty(neighbors.north), east |-> liberty(neighbors.east),
         south |-> liberty(neighbors.south), west |-> liberty(neighbors.west)]
  IN  liberties(findNeighbors(board, x, y))

\* Each entry is the neighbour when it is an Empty point, else null.
findAdjacentLibertiesForPoint(board, x, y) ==
  LET liberty(ref) == IF ColorOf(board, ref) = "Empty" THEN ref ELSE Null
      liberties(neighbors) ==
        [north |-> liberty(neighbors.north), east |-> liberty(neighbors.east),
         south |-> liberty(neighbors.south), west |-> liberty(neighbors.west)]
  IN  liberties(findNeighbors(board, x, y))

\* _player is "undefined" when the caller leaves it out.
findAdjacentLibertiesAndAlliesForPoint(board, x, y, _player) ==
  LET currentPoint == At(board, x, y)
      playerOr(color) == IF _player # "undefined" THEN _player
                         ELSE IF color = "undefined" \/ color = "Empty" THEN "undefined"
                         ELSE color
      result(player, adjacentLiberties, neighbors) ==
        LET keep(lib, nb) ==
              IF isNotNullish(lib) \/ ColorOf(board, nb) = player THEN nb ELSE Null
        IN  [north |-> keep(adjacentLiberties.north, neighbors.north),
             east  |-> keep(adjacentLiberties.east, neighbors.east),
             south |-> keep(adjacentLiberties.south, neighbors.south),
             west  |-> keep(adjacentLiberties.west, neighbors.west)]
  IN  result(playerOr(ColorOf(board, currentPoint)),
             findAdjacentLibertiesForPoint(board, x, y),
             findNeighbors(board, x, y))

\* The neighbours of (x,y) of the given colour, north, east, south, west.
neighborsOfColor(board, x, y, player) ==
  LET mine(ref) == isNotNullish(ref) /\ board[ref].color = player
      ofColor(neighbors) ==
        SelectSeq(<<neighbors.north, neighbors.east, neighbors.south, neighbors.west>>, mine)
  IN  ofColor(findAdjacentLibertiesAndAlliesForPoint(board, x, y, player))

RECURSIVE MaxOver(_, _)
MaxOver(nums, start) ==
  IF Len(nums) = 0 THEN start
  ELSE MaxOver(Tail(nums), IF Head(nums) > start THEN Head(nums) ELSE start)

RECURSIVE MinOver(_, _)
MinOver(nums, start) ==
  IF Len(nums) = 0 THEN start
  ELSE MinOver(Tail(nums), IF Head(nums) < start THEN Head(nums) ELSE start)

findMaxLibertyCountOfAdjacentChains(boardState, x, y, player) ==
  LET largest(friendlyNeighbors) ==
        MaxOver([i \in 1 .. Len(friendlyNeighbors) |->
                   LengthOr(boardState.board[friendlyNeighbors[i]].liberties, 0)], 0)
  IN  largest(neighborsOfColor(boardState.board, x, y, player))

\* undefined (no such chain) is the empty list.
findEnemyNeighborChainWithFewestLiberties(board, x, y, player) ==
  LET chains == getAllChains(board)
      weakestOf(friendlyNeighbors) ==
        LET counts == [i \in 1 .. Len(friendlyNeighbors) |->
                         LengthOr(board[friendlyNeighbors[i]].liberties, 0)]
            first == IF Len(friendlyNeighbors) = 0 THEN 99
                     ELSE LengthOr(board[friendlyNeighbors[1]].liberties, 99)
            minimumLiberties == MinOver(counts, first)
            weakest(ref) == LengthOr(board[ref].liberties, -1) = minimumLiberties
            found == SelectSeq(friendlyNeighbors, weakest)
        IN  IF Len(found) = 0 THEN <<>>
            ELSE findChainById(board, chains, board[found[1]].chain)
  IN  weakestOf(neighborsOfColor(board, x, y, player))

findMinLibertyCountOfAdjacentChains(board, x, y, player) ==
  LET count(chain) == IF Len(chain) = 0 THEN 99 ELSE LengthOr(board[chain[1]].liberties, 99)
  IN  count(findEnemyNeighborChainWithFewestLiberties(board, x, y, player))

\* evaluateIfMoveIsValid from "possibleRepeat" on: the four precondition
\* checks have passed.  GoValidity, by the names of its members.
validityOfPlacement(boardState, x, y, player, shortcut) ==
  LET board == boardState.board
      point == At(board, x, y)
      repeats(b) == getColorOnBoardString(b, x, y) = player
      liberties == findAdjacentLibertiesForPoint(board, x, y)
      \* The checks, given the values the code computes before them.
      validity(possibleRepeat, hasLiberty, neighborChainLibertyCount,
               potentialCaptureChainLibertyCount, evaluationBoard) ==
        LET slowPath ==
              IF evaluationBoard[point].color # player THEN "noSuicide"
              ELSE IF /\ possibleRepeat
                      /\ Len(boardState.previousBoards) > 0
                      /\ InSeq(boardStringFromBoard(evaluationBoard),
                               boardState.previousBoards)
                THEN "boardRepeated"
                ELSE "valid"
        IN  IF ~shortcut THEN slowPath
            ELSE IF ~possibleRepeat /\ hasLiberty THEN "valid"
            ELSE IF ~possibleRepeat /\ neighborChainLibertyCount > 1 THEN "valid"
            ELSE IF ~possibleRepeat /\ potentialCaptureChainLibertyCount < 2 THEN "valid"
            ELSE IF /\ ~hasLiberty
                    /\ potentialCaptureChainLibertyCount >= 2
                    /\ neighborChainLibertyCount <= 1
              THEN "noSuicide"
              ELSE slowPath
  IN  validity(Len(SelectSeq(boardState.previousBoards, repeats)) > 0,
               \/ isNotNullish(liberties.north) \/ isNotNullish(liberties.east)
               \/ isNotNullish(liberties.south) \/ isNotNullish(liberties.west),
               findMaxLibertyCountOfAdjacentChains(boardState, x, y, player),
               findMinLibertyCountOfAdjacentChains(board, x, y,
                                                   IF player = "Black" THEN "White" ELSE "Black"),
               evaluationBoardOf(board, x, y, player, TRUE))

\* evaluateIfMoveIsValid looking at the point before the turn.
evaluateIfMoveIsValid_PointFirst(boardState, x, y, player, shortcut) ==
  LET point == At(boardState.board, x, y)
  IN  IF ~isNotNullish(point) THEN "pointBroken"
      ELSE IF boardState.board[point].color # "Empty" THEN "pointNotEmpty"
      ELSE IF boardState.previousPlayer = "null" THEN "gameOver"
      ELSE IF boardState.previousPlayer = player THEN "notYourTurn"
      ELSE validityOfPlacement(boardState, x, y, player, shortcut)

evaluateIfMoveIsValid(boardState, x, y, player, shortcut) ==
  LET point == At(boardState.board, x, y)
  IN  IF boardState.previousPlayer = "null" THEN "gameOver"
      ELSE IF boardState.previousPlayer = player THEN "notYourTurn"
      ELSE IF ~isNotNullish(point) THEN "pointBroken"
      ELSE IF boardState.board[point].color # "Empty" THEN "pointNotEmpty"
      ELSE validityOfPlacement(boardState, x, y, player, shortcut)

getEmptySpaces(board) ==
  LET isEmpty(p) == board[p].color = "Empty"
  IN  SelectSeq(ScanOrderOf(board), isEmpty)

\* getAllValidMoves without the adjudicator: every Empty point.
getAllValidMoves_AllEmpty(boardState, player) == getEmptySpaces(boardState.board)

getAllValidMoves(boardState, player) ==
  LET valid(p) == evaluateIfMoveIsValid(boardState, p[1], p[2], player, TRUE) = "valid"
  IN  SelectSeq(getEmptySpaces(boardState.board), valid)

\* ------------------------------------------------- 4.C  eyes and territory
\* chain[0]?.color
ChainColor(board, chain) == IF Len(chain) = 0 THEN "undefined" ELSE board[chain[1]].color

\* The reduce of getAllNeighboringChains into a Set of chain objects: a chain
\* of allChains is added once, every [] of a failed find is an object of its
\* own.
RECURSIVE neighboringChainsFrom(_, _, _, _)
neighboringChainsFrom(board, allChains, playerNeighbors, acc) ==
  IF Len(playerNeighbors) = 0 THEN acc
  ELSE LET found == findChainById(board, allChains, board[Head(playerNeighbors)].chain)
           next == IF Len(found) > 0 /\ InSeq(found, acc) THEN acc ELSE Append(acc, found)
       IN  neighboringChainsFrom(board, allChains, Tail(playerNeighbors), next)

getAllNeighboringChains(board, chain, allChains) ==
  neighboringChainsFrom(board, allChains, getPlayerNeighbors(board, chain), <<>>)

\* Some chain of the list is of the colour.
hasPieceNeighbor(board, chainList, color) ==
  \E i \in 1 .. Len(chainList) : ChainColor(board, chainList[i]) = color

\* _maxSize is never given: maxSize is Math.min(nodeCount * 0.4, 11).
getAllPotentialEyes(board, allChains, player) ==
  LET nodeCount == Cardinality({p \in DOMAIN board : board[p].color # "null"})
      small(chain) == /\ board[chain[1]].color = "Empty"
                      /\ Len(chain) * 10 <= nodeCount * 4
                      /\ Len(chain) <= 11
      emptyPointChains == SelectSeq(allChains, small)
      candidates == [i \in 1 .. Len(emptyPointChains) |->
                       [neighbors |-> getAllNeighboringChains(board, emptyPointChains[i], allChains),
                        chain     |-> emptyPointChains[i],
                        id        |-> board[emptyPointChains[i][1]].chain]]
      oneColor(c) ==
        LET hasWhitePieceNeighbor == hasPieceNeighbor(board, c.neighbors, "White")
            hasBlackPieceNeighbor == hasPieceNeighbor(board, c.neighbors, "Black")
        IN  \/ (hasWhitePieceNeighbor /\ ~hasBlackPieceNeighbor /\ player = "White")
            \/ (~hasWhitePieceNeighbor /\ hasBlackPieceNeighbor /\ player = "Black")
  IN  SelectSeq(candidates, oneColor)

findFurthestPointsOfChain(chain) ==
  [north |-> MaxOver([i \in 1 .. Len(chain) |-> chain[i][2]], chain[1][2]),
   east  |-> MaxOver([i \in 1 .. Len(chain) |-> chain[i][1]], chain[1][1]),
   south |-> MinOver([i \in 1 .. Len(chain) |-> chain[i][2]], chain[1][2]),
   west  |-> MinOver([i \in 1 .. Len(chain) |-> chain[i][1]], chain[1][1])]

removePointAtIndex(arr, index) ==
  SubSeq(arr, 1, index - 1) \o SubSeq(arr, index + 1, Len(arr))

\* The test on the spreads in findNeighboringChainsThatFullyEncircleEmptySpace:
\* neighborChain goes far enough on the four sides to surround candidateChain.
couldWrap(board, candidateChain, neighborChain) ==
  LET boardMax == LengthOf(board) - 1
      wraps(candidateSpread, neighborSpread) ==
        LET couldWrapNorth ==
              \/ neighborSpread.north > candidateSpread.north
              \/ (candidateSpread.north = boardMax /\ neighborSpread.north = boardMax)
            couldWrapEast ==
              \/ neighborSpread.east > candidateSpread.east
              \/ (candidateSpread.east = boardMax /\ neighborSpread.east = boardMax)
            couldWrapSouth ==
              \/ neighborSpread.south < candidateSpread.south
              \/ (candidateSpread.south = 0 /\ neighborSpread.south = 0)
            couldWrapWest ==
              \/ neighborSpread.west < candidateSpread.west
              \/ (candidateSpread.west = 0 /\ neighborSpread.west = 0)
        IN  couldWrapNorth /\ couldWrapEast /\ couldWrapSouth /\ couldWrapWest
  IN  wraps(findFurthestPointsOfChain(candidateChain), findFurthestPointsOfChain(neighborChain))

\* The test on the evaluation board in
\* findNeighboringChainsThatFullyEncircleEmptySpace: with the other chains of
\* neighborChainList made Empty, the chain of the candidate has one
\* neighbouring chain.
encirclesAlone(board, candidateChain, neighborChainList, allChains, index) ==
  LET \* The board with the points of the other chains made Empty.
      emptied(otherChainNeighborPoints) ==
        [p \in DOMAIN board |->
           IF InSeq(p, otherChainNeighborPoints) /\ board[p].color # "null"
             THEN [board[p] EXCEPT !.color = "Empty"]
             ELSE board[p]]
      newNeighborChains(evaluationBoard) ==
        LET newChains == getAllChains(evaluationBoard)
            newChainID == evaluationBoard[candidateChain[1]].chain
            chain == findChainById(evaluationBoard, newChains, newChainID)
        IN  getAllNeighboringChains(board, chain, allChains)
  IN  Len(newNeighborChains(
            updateChains(emptied(Flat(removePointAtIndex(neighborChainList, index))),
                         TRUE))) = 1

findNeighboringChainsThatFullyEncircleEmptySpace(board, candidateChain, neighborChainList, allChains) ==
  LET encircles(index) ==
        /\ couldWrap(board, candidateChain, neighborChainList[index])
        /\ encirclesAlone(board, candidateChain, neighborChainList, allChains, index)
      chainsAt(kept) == [k \in 1 .. Len(kept) |-> neighborChainList[kept[k]]]
  IN  chainsAt(SelectSeq([i \in 1 .. Len(neighborChainList) |-> i], encircles))

\* eyes[id] = eyes[id] || []; eyes[id].push(chain), on the object eyes kept as
\* the list of its entries in key order.
pushEye(eyes, id, chain) ==
  IF \E i \in 1 .. Len(eyes) : eyes[i].id = id
    THEN [i \in 1 .. Len(eyes) |->
            IF eyes[i].id = id THEN [eyes[i] EXCEPT !.eyes = Append(@, chain)] ELSE eyes[i]]
    ELSE Append(eyes, [id |-> id, eyes |-> <<chain>>])

RECURSIVE pushEyeForEach(_, _, _, _)
pushEyeForEach(board, eyes, neighborChains, chain) ==
  IF Len(neighborChains) = 0 THEN eyes
  ELSE pushEyeForEach(board, pushEye(eyes, board[Head(neighborChains)[1]].chain, chain),
                      Tail(neighborChains), chain)

\* The forEach over the eye candidates of getAllEyesByChainId.
RECURSIVE eyesFromCandidates(_, _, _, _)
eyesFromCandidates(board, allChains, eyeCandidates, eyes) ==
  IF Len(eyeCandidates) = 0 THEN eyes
  ELSE LET candidate == Head(eyeCandidates)
       IN  eyesFromCandidates(
             board, allChains, Tail(eyeCandidates),
             IF Len(candidate.neighbors) = 0 THEN eyes
             ELSE IF Len(candidate.neighbors) = 1
               THEN pushEye(eyes, board[candidate.neighbors[1][1]].chain, candidate.chain)
               ELSE pushEyeForEach(board, eyes,
                      findNeighboringChainsThatFullyEncircleEmptySpace(
                        board, candidate.chain, candidate.neighbors, allChains),
                      candidate.chain))

getAllEyesByChainId(board, player) ==
  LET allChains == getAllChains(board)
  IN  eyesFromCandidates(board, allChains, getAllPotentialEyes(board, allChains, player), <<>>)

\* Object.keys(eyes).map((key) => eyes[key]) for a given eyes object.
eyesOfObject(eyesObject) == [i \in 1 .. Len(eyesObject) |-> eyesObject[i].eyes]

getAllEyes(board, player) == eyesOfObject(getAllEyesByChainId(board, player))

\* findEffectiveLibertiesOfNewMove without the filter that takes the point of
\* the move itself out of the liberties.
findEffectiveLibertiesOfNewMove_WithStart(board, x, y, player) ==
  LET isFriendly(chain) == board[chain[1]].color = player
      isAlly(ref) == board[ref].color = player
      isEmpty(ref) == board[ref].color = "Empty"
      libertiesOf(chain) ==
        IF Len(chain) = 0 THEN <<>> ELSE LibertiesOrEmpty(board[chain[1]].liberties)
      pointsOf(neighbors) ==
        SelectSeq(<<neighbors.north, neighbors.east, neighbors.south, neighbors.west>>,
                  isNotNullish)
      effective(friendlyChains, neighborPoints) ==
        LET allyNeighbors == SelectSeq(neighborPoints, isAlly)
            allyNeighborChainLiberties ==
              Flat([i \in 1 .. Len(allyNeighbors) |->
                      libertiesOf(findChainById(board, friendlyChains,
                                                board[allyNeighbors[i]].chain))])
            directLiberties == SelectSeq(neighborPoints, isEmpty)
            allLiberties == directLiberties \o allyNeighborChainLiberties
        IN  addAll(<<>>, allLiberties)
  IN  effective(SelectSeq(getAllChains(board), isFriendly),
                pointsOf(findAdjacentLibertiesAndAlliesForPoint(board, x, y, player)))

findEffectiveLibertiesOfNewMove(board, x, y, player) ==
  LET isFriendly(chain) == board[chain[1]].color = player
      isAlly(ref) == board[ref].color = player
      isEmpty(ref) == board[ref].color = "Empty"
      notStart(ref) == ref # <<x, y>>
      libertiesOf(chain) ==
        IF Len(chain) = 0 THEN <<>> ELSE LibertiesOrEmpty(board[chain[1]].liberties)
      pointsOf(neighbors) ==
        SelectSeq(<<neighbors.north, neighbors.east, neighbors.south, neighbors.west>>,
                  isNotNullish)
      effective(friendlyChains, neighborPoints) ==
        LET allyNeighbors == SelectSeq(neighborPoints, isAlly)
            allyNeighborChainLiberties ==
              Flat([i \in 1 .. Len(allyNeighbors) |->
                      libertiesOf(findChainById(board, friendlyChains,
                                                board[allyNeighbors[i]].chain))])
            directLiberties == SelectSeq(neighborPoints, isEmpty)
            allLiberties == directLiberties \o allyNeighborChainLiberties
        IN  SelectSeq(addAll(<<>>, allLiberties), notStart)
  IN  effective(SelectSeq(getAllChains(board), isFriendly),
                pointsOf(findAdjacentLibertiesAndAlliesForPoint(board, x, y, player)))

findDisputedTerritory(boardState, player, excludeFriendlyEyes) ==
  LET board == boardState.board
      living(eye) == Len(eye) >= 2
      opponent == IF player = "White" THEN "Black" ELSE "White"
      chains == getAllChains(board)
      \* validMoves, given the valid moves and the points of the friendly eyes.
      outsideOf(friendlyEyes, allValidMoves) ==
        LET notInEye(point) == ~contains(friendlyEyes, point)
        IN  IF excludeFriendlyEyes THEN SelectSeq(allValidMoves, notInEye)
            ELSE allValidMoves
      attackableLibertiesOf(space, neighborChain) ==
        LET liberties == LibertiesOrEmpty(board[neighborChain[1]].liberties)
            inSpace(point) == contains(space.chain, point)
            libertiesInsideOfSpaceToAnalyze == SelectSeq(liberties, inSpace)
        IN  IF Len(liberties) > 4 THEN <<>>
            ELSE IF ~hasPieceNeighbor(board,
                                      getAllNeighboringChains(board, neighborChain, chains),
                                      player)
              THEN <<>>
            ELSE IF Len(libertiesInsideOfSpaceToAnalyze) # Len(liberties) THEN <<>>
            ELSE libertiesInsideOfSpaceToAnalyze
      attackableLiberties(space) ==
        Flat([j \in 1 .. Len(space.neighbors) |->
                attackableLibertiesOf(space, space.neighbors[j])])
      disputed(validMoves, emptySpacesToAnalyze) ==
        LET nodesInsideEyeSpacesToAnalyze ==
              Flat([i \in 1 .. Len(emptySpacesToAnalyze) |-> emptySpacesToAnalyze[i].chain])
            playableNodesInsideOfEnemySpace ==
              Flat([i \in 1 .. Len(emptySpacesToAnalyze) |->
                      attackableLiberties(emptySpacesToAnalyze[i])])
            worth(move) == \/ ~contains(nodesInsideEyeSpacesToAnalyze, move)
                           \/ contains(playableNodesInsideOfEnemySpace, move)
        IN  SelectSeq(validMoves, worth)
  IN  disputed(outsideOf(Flat(Flat(SelectSeq(getAllEyes(board, player), living))),
                         getAllValidMoves(boardState, player)),
               getAllPotentialEyes(board, chains, opponent))

\* ----------------------------------------------------- 4.D  move generators
\* A Move or EyeMove; the fields a generator leaves out are never read
\* (oldLibertyCount and newLibertyCount are written -1, createsLife FALSE).
Move(point, oldLibertyCount, newLibertyCount) ==
  [point |-> point, oldLibertyCount |-> oldLibertyCount,
   newLibertyCount |-> newLibertyCount, createsLife |-> FALSE]

\* null or undefined in the place of a Move.
NoMove == Move(Null, -1, -1)

\* A Move or EyeMove is truthy, null and undefined are not.
isMove(move) == isNotNullish(move.point)

\* arr[Math.floor(rng * arr.length)], rng in hundredths; none when the index
\* is outside the array.
elementAt(arr, rng, none) ==
  LET index == (rng * Len(arr)) \div 100
  IN  IF index < Len(arr) THEN arr[index + 1] ELSE none

\* availableSpaces.find((p) => p.x === point.x && p.y === point.y)
inSpaces(availableSpaces, point) == InSeq(point, availableSpaces)

getDisputedTerritoryMoves(board, availableSpaces, maxChainSize) ==
  LET sized(chain) == Len(chain) <= maxChainSize
      bothColors(playerNeighbors) ==
        /\ hasPieceNeighbor(board, playerNeighbors, "White")
        /\ hasPieceNeighbor(board, playerNeighbors, "Black")
      among(chains) ==
        LET disputed(space) ==
              bothColors(getAllNeighboringChains(
                           board, findChainById(board, chains, board[space].chain), chains))
        IN  SelectSeq(availableSpaces, disputed)
  IN  among(SelectSeq(getAllChains(board), sized))

getExpansionMoveArray(board, availableSpaces) ==
  LET isEmpty(ref) == ColorOf(board, ref) = "Empty"
      allEmpty(neighbors) ==
        Len(SelectSeq(<<neighbors.north, neighbors.east, neighbors.south, neighbors.west>>,
                      isEmpty)) = 4
      open(space) == allEmpty(findNeighbors(board, space[1], space[2]))
      withDisputed(emptySpaces) ==
        emptySpaces \o (IF Len(emptySpaces) > 0 THEN <<>>
                        ELSE getDisputedTerritoryMoves(board, availableSpaces, 1))
      movesOf(moveOptions) == [i \in 1 .. Len(moveOptions) |-> Move(moveOptions[i], -1, -1)]
  IN  movesOf(withDisputed(SelectSeq(availableSpaces, open)))

\* getEyeCreationMoves from "currentEyes" on: allEyes is the value of
\* getAllEyesByChainId(board, player).
eyeCreationMovesFor(board, player, availableSpaces, maxLiberties, allEyes) ==
  LET alive(entry) == Len(entry.eyes) >= 2
      hasEye(eye) == Len(eye) > 0
      twoEyes(eye) == Len(eye) >= 2
      wall(ref) == ~isNotNullish(ref) \/ board[ref].color = player
      isEmpty(ref) == ColorOf(board, ref) = "Empty"
      shaped(neighbors) ==
        LET neighborhood == <<neighbors.north, neighbors.east, neighbors.south, neighbors.west>>
        IN  /\ Len(SelectSeq(neighborhood, wall)) >= 2
            /\ Len(SelectSeq(neighborhood, isEmpty)) > 0
      candidate(point) == /\ inSpaces(availableSpaces, point)
                          /\ shaped(findNeighbors(board, point[1], point[2]))
      pushed(move) == move.push
      life(move) == move.createsLife
      noLife(move) == ~move.createsLife
      sorted(found) ==
        LET eyeCreationMoves ==
              [i \in 1 .. Len(found) |->
                 [point |-> found[i].point, oldLibertyCount |-> -1, newLibertyCount |-> -1,
                  createsLife |-> found[i].createsLife]]
        IN  SelectSeq(eyeCreationMoves, life) \o SelectSeq(eyeCreationMoves, noLife)
      currentEyes == eyesOfObject(allEyes)
      livingEntries == SelectSeq(allEyes, alive)
      currentLivingGroupIDs == [i \in 1 .. Len(livingEntries) |-> livingEntries[i].id]
      currentLivingGroupsCount == Len(currentLivingGroupIDs)
      currentEyeCount == Len(SelectSeq(currentEyes, hasEye))
      growing(chain) ==
        /\ board[chain[1]].color = player
        /\ Len(chain) > 1
        /\ board[chain[1]].liberties # NullLiberties
        /\ Len(board[chain[1]].liberties) <= maxLiberties
        /\ ~InSeq(board[chain[1]].chain, currentLivingGroupIDs)
      chains == SelectSeq(getAllChains(board), growing)
      friendlyLiberties ==
        SelectSeq(Flat([i \in 1 .. Len(chains) |-> board[chains[i][1]].liberties]), candidate)
      eyeMove(point, newEyes) ==
        LET newLivingGroupsCount == Len(SelectSeq(newEyes, twoEyes))
            newEyeCount == Len(SelectSeq(newEyes, hasEye))
        IN  [point |-> point, oldLibertyCount |-> -1, newLibertyCount |-> -1,
             createsLife |-> newLivingGroupsCount > currentLivingGroupsCount,
             push |-> \/ newLivingGroupsCount > currentLivingGroupsCount
                      \/ (/\ newEyeCount > currentEyeCount
                          /\ newLivingGroupsCount = currentLivingGroupsCount)]
  IN  sorted(SelectSeq(
               [i \in 1 .. Len(friendlyLiberties) |->
                  eyeMove(friendlyLiberties[i],
                          getAllEyes(evaluationBoardOf(board, friendlyLiberties[i][1],
                                                       friendlyLiberties[i][2], player, FALSE),
                                     player))],
               pushed))

\* getEyeCreationMoves looking only at the chains with a single liberty.
getEyeCreationMoves_AtariOnly(board, player, availableSpaces, maxLiberties) ==
  eyeCreationMovesFor(board, player, availableSpaces, 1, getAllEyesByChainId(board, player))

getEyeCreationMoves(board, player, availableSpaces, maxLiberties) ==
  eyeCreationMovesFor(board, player, availableSpaces, maxLiberties,
                      getAllEyesByChainId(board, player))

getEyeCreationMove(board, player, availableSpaces) ==
  LET first(eyeCreationMoves) ==
        IF Len(eyeCreationMoves) = 0 THEN NoMove ELSE eyeCreationMoves[1]
  IN  first(getEyeCreationMoves(board, player, availableSpaces, 99))

getEyeBlockingMove(board, player, availablePoints) ==
  LET opposingPlayer == IF player = "White" THEN "Black" ELSE "White"
      life(move) == move.createsLife
      noLife(move) == ~move.createsLife
      blocking(opponentEyeMoves) ==
        LET twoEyeMoves == SelectSeq(opponentEyeMoves, life)
            oneEyeMoves == SelectSeq(opponentEyeMoves, noLife)
        IN  IF Len(twoEyeMoves) = 1 THEN twoEyeMoves[1]
            ELSE IF Len(twoEyeMoves) = 0 /\ Len(oneEyeMoves) = 1 THEN oneEyeMoves[1]
            ELSE NoMove
  IN  blocking(getEyeCreationMoves(board, opposingPlayer, availablePoints, 5))

getLibertyGrowthMoves(board, player, availableSpaces) ==
  LET isFriendly(chain) == board[chain[1]].color = player
      available(point) == inSpaces(availableSpaces, point)
      moveOf(move) ==
        Move(move,
             findMinLibertyCountOfAdjacentChains(board, move[1], move[2], player),
             Len(findEffectiveLibertiesOfNewMove(board, move[1], move[2], player)))
      grows(move) == /\ move.newLibertyCount > 1
                     /\ move.newLibertyCount >= move.oldLibertyCount
      movesAt(liberties) == [i \in 1 .. Len(liberties) |-> moveOf(liberties[i])]
      growthOf(friendlyChains) ==
        IF Len(friendlyChains) = 0 THEN <<>>
        ELSE SelectSeq(
               movesAt(SelectSeq(Flat([i \in 1 .. Len(friendlyChains) |->
                                         LibertiesOrEmpty(board[friendlyChains[i][1]].liberties)]),
                                 available)),
               grows)
  IN  growthOf(SelectSeq(getAllChains(board), isFriendly))

\* The moves of the list whose liberty gain is the largest of the list.
largestGain(moveList) ==
  LET gain(move) == move.newLibertyCount - move.oldLibertyCount
      maxLibertyCount == MaxOver([i \in 1 .. Len(moveList) |-> gain(moveList[i])],
                                 gain(moveList[1]))
      best(move) == gain(move) = maxLibertyCount
  IN  IF Len(moveList) = 0 THEN <<>> ELSE SelectSeq(moveList, best)

getGrowthMove(board, player, availableSpaces, rng) ==
  elementAt(largestGain(getLibertyGrowthMoves(board, player, availableSpaces)), rng, NoMove)

getExpansionMove(board, availableSpaces, rng, moveArray) ==
  elementAt(moveArray, rng, NoMove)

getJumpMove(board, player, availableSpaces, rng, moveArray) ==
  LET near(move) ==
        LET point == move.point
        IN  \/ ColorOf(board, At(board, point[1], point[2] + 2)) = player
            \/ ColorOf(board, At(board, point[1] + 2, point[2])) = player
            \/ ColorOf(board, At(board, point[1], point[2] - 2)) = player
            \/ ColorOf(board, At(board, point[1] - 2, point[2])) = player
  IN  elementAt(SelectSeq(moveArray, near), rng, NoMove)

\* Math.max() of no numbers is -Infinity, which is below 1.
getDefendMove(board, player, availableSpaces, rng) ==
  LET increase(move) == /\ move.oldLibertyCount <= 1
                        /\ move.newLibertyCount > move.oldLibertyCount
      gain(move) == move.newLibertyCount - move.oldLibertyCount
      defending(libertyIncreases) ==
        LET maxLibertyCount ==
              MaxOver([i \in 1 .. Len(libertyIncreases) |-> gain(libertyIncreases[i])],
                      gain(libertyIncreases[1]))
        IN  IF Len(libertyIncreases) = 0 THEN NoMove
            ELSE IF maxLibertyCount < 1 THEN NoMove
            ELSE elementAt(largestGain(libertyIncreases), rng, NoMove)
  IN  defending(SelectSeq(getLibertyGrowthMoves(board, player, availableSpaces), increase))

\* ------------------------------------------------------ 4.E  patterns
\* Each pattern is three strings, a string the list of its characters.
threeByThreePatterns ==
  <<
     <<<<"X", "O", "X">>, <<".", ".", ".">>, <<"?", "?", "?">>>>,
     <<<<"X", "O", ".">>, <<".", ".", ".">>, <<"?", ".", "?">>>>,
     <<<<"X", "O", "?">>, <<"X", ".", ".">>, <<"o", ".", "?">>>>,
     <<<<".", "O", ".">>, <<"X", ".", ".">>, <<".", ".", ".">>>>,
     <<<<"X", "O", "?">>, <<"O", ".", "x">>, <<"?", "x", "?">>>>,
     <<<<"X", "O", "?">>, <<"O", ".", "X">>, <<"?", "?", "?">>>>,
     <<<<"?", "X", "?">>, <<"O", ".", "O">>, <<"x", "x", "x">>>>,
     <<<<"O", "X", "?">>, <<"x", ".", "O">>, <<"?", "?", "?">>>>,
     <<<<"X", ".", "?">>, <<"O", ".", "?">>, <<" ", " ", " ">>>>,
     <<<<"O", "X", "?">>, <<"X", ".", "O">>, <<" ", " ", " ">>>>,
     <<<<"?", "X", "?">>, <<"o", ".", "O">>, <<" ", " ", " ">>>>,
     <<<<"?", "X", "O">>, <<"o", ".", "o">>, <<" ", " ", " ">>>>,
     <<<<"?", "O", "X">>, <<"X", ".", "O">>, <<" ", " ", " ">>>>
  >>

rotate90Degrees(pattern) ==
  <<<<pattern[3][1], pattern[2][1], pattern[1][1]>>,
    <<pattern[3][2], pattern[2][2], pattern[1][2]>>,
    <<pattern[3][3], pattern[2][3], pattern[1][3]>>>>

verticalMirror(pattern) == <<pattern[3], pattern[2], pattern[1]>>

\* str.split("").reverse().join(): join() puts a comma between the characters.
reverseJoin(str) ==
  [i \in 1 .. (IF Len(str) = 0 THEN 0 ELSE 2 * Len(str) - 1) |->
     IF i % 2 = 1 THEN str[Len(str) - (i - 1) \div 2] ELSE ","]

horizontalMirror(pattern) ==
  <<reverseJoin(pattern[1]), reverseJoin(pattern[2]), reverseJoin(pattern[3])>>

\* The catalog with the mirror images and without the rotations.
expandAllThreeByThreePatterns_NoRotation ==
  LET withVertical(rotatedPatterns) ==
        rotatedPatterns \o [i \in 1 .. Len(rotatedPatterns) |-> verticalMirror(rotatedPatterns[i])]
      withHorizontal(mirroredPatterns) ==
        mirroredPatterns \o
          [i \in 1 .. Len(mirroredPatterns) |-> horizontalMirror(mirroredPatterns[i])]
  IN  withHorizontal(withVertical(threeByThreePatterns))

expandAllThreeByThreePatterns ==
  LET rotated(patterns) == [i \in 1 .. Len(patterns) |-> rotate90Degrees(patterns[i])]
      withVertical(rotatedPatterns) ==
        rotatedPatterns \o [i \in 1 .. Len(rotatedPatterns) |-> verticalMirror(rotatedPatterns[i])]
      withHorizontal(mirroredPatterns) ==
        mirroredPatterns \o
          [i \in 1 .. Len(mirroredPatterns) |-> horizontalMirror(mirroredPatterns[i])]
  IN  withHorizontal(withVertical(threeByThreePatterns
                                    \o rotated(threeByThreePatterns)
                                    \o rotated(rotated(threeByThreePatterns))
                                    \o rotated(rotated(rotated(threeByThreePatterns)))))

getNeighborhood(board, x, y) ==
  <<<<At(board, x - 1, y - 1), At(board, x - 1, y), At(board, x - 1, y + 1)>>,
    <<At(board, x, y - 1), At(board, x, y), At(board, x, y + 1)>>,
    <<At(board, x + 1, y - 1), At(board, x + 1, y), At(board, x + 1, y + 1)>>>>

\* The null returned for a character that is none of the seven is FALSE.
matches(board, stringPoint, point, player) ==
  LET opponent == IF player = "White" THEN "Black" ELSE "White"
  IN  IF stringPoint = "X" THEN ColorOf(board, point) = player
      ELSE IF stringPoint = "O" THEN ColorOf(board, point) = opponent
      ELSE IF stringPoint = "x" THEN ColorOf(board, point) # opponent
      ELSE IF stringPoint = "o" THEN ColorOf(board, point) # player
      ELSE IF stringPoint = "." THEN ColorOf(board, point) = "Empty"
      ELSE IF stringPoint = " " THEN point = Null
      ELSE IF stringPoint = "?" THEN TRUE
      ELSE FALSE

\* patternArr.every((str, index) => matches(str, neighborhoodArray[index], player))
everyMatches(board, neighborhoodArray, patternArr, player) ==
  \A index \in 1 .. Len(patternArr) :
    matches(board, patternArr[index],
            IF index <= Len(neighborhoodArray) THEN neighborhoodArray[index] ELSE Undefined,
            player)

checkMatch(board, neighborhood, pattern, player) ==
  everyMatches(board, Flat(neighborhood), Flat(pattern), player)

\* patterns.find((pattern) => checkMatch(neighborhood, pattern, player)), as
\* the truth value of what it finds.
findPattern(board, neighborhood, player, patterns) ==
  \E i \in 1 .. Len(patterns) : checkMatch(board, neighborhood, patterns[i], player)

\* The search of findAnyMatchedPatterns at the point (x,y).
matchedPattern(board, x, y, player, patterns) ==
  findPattern(board, getNeighborhood(board, x, y), player, patterns)

\* moves[Math.floor(rng * moves.length)] || null
findAnyMatchedPatterns(board, player, availableSpaces, smart, rng) ==
  LET matching(patterns) ==
        LET move(p) ==
              /\ matchedPattern(board, p[1], p[2], player, patterns)
              /\ inSpaces(availableSpaces, p)
              /\ (~smart \/ Len(findEffectiveLibertiesOfNewMove(board, p[1], p[2], player)) > 1)
        IN  elementAt(SelectSeq(ScanOrderOf(board), move), rng, Null)
  IN  matching(expandAllThreeByThreePatterns)

\* --------------------------------------- 4.D  surround and corner moves
getSurroundMove(board, player, availableSpaces, smart) ==
  LET opposingPlayer == IF player = "Black" THEN "White" ELSE "Black"
      isEnemy(chain) == board[chain[1]].color = opposingPlayer
      available(point) == inSpaces(availableSpaces, point)
      rating(move, newLibertyCount, weakestEnemyChain) ==
        LET weakestEnemyChainLength ==
              IF Len(weakestEnemyChain) = 0 THEN 99 ELSE Len(weakestEnemyChain)
            weakestLiberties ==
              IF Len(weakestEnemyChain) = 0 THEN NullLiberties
              ELSE board[weakestEnemyChain[1]].liberties
            enemyChainLibertyCount == LengthOr(weakestLiberties, 99)
            enemyLibertyGroups ==
              addAll(<<>>, [i \in 1 .. Len(LibertiesOrEmpty(weakestLiberties)) |->
                              board[weakestLiberties[i]].chain])
            kind ==
              IF newLibertyCount <= 2 /\ enemyChainLibertyCount > 2 THEN "none"
              ELSE IF enemyChainLibertyCount <= 1 THEN "capture"
              ELSE IF /\ enemyChainLibertyCount = 2
                      /\ \/ newLibertyCount >= 2
                         \/ (Len(enemyLibertyGroups) = 1 /\ weakestEnemyChainLength > 3)
                         \/ ~smart
                THEN "atari"
              ELSE IF newLibertyCount >= 2 THEN "surround"
              ELSE "none"
        IN  [kind |-> kind,
             move |-> Move(move, enemyChainLibertyCount, enemyChainLibertyCount - 1)]
      rated(move) ==
        rating(move,
               Len(findEffectiveLibertiesOfNewMove(board, move[1], move[2], player)),
               findEnemyNeighborChainWithFewestLiberties(board, move[1], move[2],
                                                         opposingPlayer))
      isCapture(r) == r.kind = "capture"
      isAtari(r) == r.kind = "atari"
      isSurround(r) == r.kind = "surround"
      ordered(ratedMoves) ==
        SelectSeq(ratedMoves, isCapture) \o SelectSeq(ratedMoves, isAtari)
          \o SelectSeq(ratedMoves, isSurround)
      first(moves) == IF Len(moves) = 0 THEN NoMove ELSE moves[1].move
      ratedAt(enemyLiberties) ==
        [i \in 1 .. Len(enemyLiberties) |-> rated(enemyLiberties[i])]
      surrounding(enemyChains) ==
        IF Len(enemyChains) = 0 \/ Len(availableSpaces) = 0 THEN NoMove
        ELSE first(ordered(ratedAt(
               SelectSeq(Flat([i \in 1 .. Len(enemyChains) |->
                                 LibertiesOrEmpty(board[enemyChains[i][1]].liberties)]),
                         available))))
  IN  surrounding(SelectSeq(getAllChains(board), isEnemy))

findLiveNodesInArea(board, x1, y1, x2, y2) ==
  LET inArea(p) == /\ board[p].color # "null"
                   /\ board[p].x >= x1 /\ board[p].x <= x2
                   /\ board[p].y >= y1 /\ board[p].y <= y2
  IN  SelectSeq(ScanOrderOf(board), inArea)

isCornerAvailableForMove(board, x1, y1, x2, y2) ==
  LET foundPoints == findLiveNodesInArea(board, x1, y1, x2, y2)
      isPiece(p) == board[p].color # "Empty"
      foundPieces == SelectSeq(foundPoints, isPiece)
  IN  IF Len(foundPoints) >= 7 THEN Len(foundPieces) = 0 ELSE FALSE

\* getCornerMove giving the corner point of the first window instead of its
\* inner point.
getCornerMove_CornerPoint(board) ==
  LET boardEdge == LengthOf(board) - 1
      cornerMax == boardEdge - 2
  IN  IF isCornerAvailableForMove(board, cornerMax, cornerMax, boardEdge, boardEdge)
        THEN At(board, boardEdge, boardEdge)
      ELSE IF isCornerAvailableForMove(board, 0, cornerMax, 2, boardEdge)
        THEN At(board, 2, cornerMax)
      ELSE IF isCornerAvailableForMove(board, 0, 0, 2, 2)
        THEN At(board, 2, 2)
      ELSE IF isCornerAvailableForMove(board, cornerMax, 0, boardEdge, 2)
        THEN At(board, cornerMax, 2)
      ELSE Null

\* The point returned is whatever the board holds there: null for an offline
\* cell.
getCornerMove(board) ==
  LET boardEdge == LengthOf(board) - 1
      cornerMax == boardEdge - 2
  IN  IF isCornerAvailableForMove(board, cornerMax, cornerMax, boardEdge, boardEdge)
        THEN At(board, cornerMax, cornerMax)
      ELSE IF isCornerAvailableForMove(board, 0, cornerMax, 2, boardEdge)
        THEN At(board, 2, cornerMax)
      ELSE IF isCornerAvailableForMove(board, 0, 0, 2, 2)
        THEN At(board, 2, 2)
      ELSE IF isCornerAvailableForMove(board, cornerMax, 0, boardEdge, 2)
        THEN At(board, cornerMax, 2)
      ELSE Null

\* ------------------------------------------------------ 4.F  move options
MoveType ==
  {"capture", "defendCapture", "eyeMove", "eyeBlock", "pattern", "growth", "expansion",
   "jump", "defend", "surround", "corner", "random"}

\* The object moveOptionGetters of getMoveOptions, given what the getters
\* close over: a getter is applied as moveOptionGetters[id], and computes its
\* value when it is applied.  endGameAvailable is
\* "!contestedPoints.length && boardState.passCount" as a truth value;
\* retrieveMoveOption(id) gives the value of the getter id.
moveOptionGetters(boardState, player, rng, smart, availableSpaces, contestedPoints, expansionMoves, surroundMove, defendMove) ==
  LET board == boardState.board
      endGameAvailable == Len(contestedPoints) = 0 /\ boardState.passCount # 0
  IN  [id \in MoveType |->
         CASE id = "capture" ->
                IF isMove(surroundMove) /\ surroundMove.newLibertyCount = 0
                  THEN surroundMove ELSE NoMove
           [] id = "defendCapture" ->
                IF /\ isMove(defendMove)
                   /\ defendMove.oldLibertyCount = 1
                   /\ defendMove.newLibertyCount # 0
                   /\ defendMove.newLibertyCount > 1
                  THEN defendMove ELSE NoMove
           [] id = "eyeMove" ->
                IF endGameAvailable THEN NoMove
                ELSE getEyeCreationMove(board, player, availableSpaces)
           [] id = "eyeBlock" ->
                IF endGameAvailable THEN NoMove
                ELSE getEyeBlockingMove(board, player, availableSpaces)
           [] id = "pattern" ->
                IF endGameAvailable THEN NoMove
                ELSE Move(findAnyMatchedPatterns(board, player, availableSpaces, smart, rng),
                          -1, -1)
           [] id = "growth" ->
                IF endGameAvailable THEN NoMove
                ELSE getGrowthMove(board, player, availableSpaces, rng)
           [] id = "expansion" -> getExpansionMove(board, availableSpaces, rng, expansionMoves)
           [] id = "jump" -> getJumpMove(board, player, availableSpaces, rng, expansionMoves)
           [] id = "defend" -> defendMove
           [] id = "surround" -> surroundMove
           [] id = "corner" -> Move(getCornerMove(board), -1, -1)
           [] id = "random" ->
                IF Len(contestedPoints) > 0
                  THEN Move(elementAt(availableSpaces, rng, Null), -1, -1)
                  ELSE NoMove]

\* getMoveOptions from "contestedPoints" on: availableSpaces is the value of
\* findDisputedTerritory(boardState, player, smart).
moveOptionsOver(boardState, player, rng, smart, availableSpaces) ==
  moveOptionGetters(boardState, player, rng, smart, availableSpaces,
                    getDisputedTerritoryMoves(boardState.board, availableSpaces, 99),
                    getExpansionMoveArray(boardState.board, availableSpaces),
                    getSurroundMove(boardState.board, player, availableSpaces, smart),
                    getDefendMove(boardState.board, player, availableSpaces, rng))

getMoveOptions(boardState, player, rng, smart) ==
  moveOptionsOver(boardState, player, rng, smart,
                  findDisputedTerritory(boardState, player, smart))

\* moves.surround(), moves.defend(), ... of the callers.
surround(moves) == moves["surround"]

defend(moves) == moves["defend"]

\* The capture getter finding nothing.
capture_Null(moves) == NoMove

capture(moves) == moves["capture"]

defendCapture(moves) == moves["defendCapture"]

eyeMove(moves) == moves["eyeMove"]

eyeBlock(moves) == moves["eyeBlock"]

pattern(moves) == moves["pattern"]

growth(moves) == moves["growth"]

expansion(moves) == moves["expansion"]

jump(moves) == moves["jump"]

corner(moves) == moves["corner"]

random(moves) == moves["random"]

\* ------------------------------------------------------------ ingestion
boardStateFromSimpleBoard(simpleBoard, ai) ==
  [board |-> updateChains(boardFromSimpleBoard(simpleBoard), TRUE),
   previousPlayer |-> "Empty",
   previousBoards |-> <<>>,
   ai |-> ai,
   passCount |-> 0,
   cheatCount |-> 0,
   cheatCountForWhite |-> 0]

\* ---------------------------------------------------------- 4.G  personas
\* The values of GoOpponent that have a priority function of their own, and
\* Illuminati, whose function is also the default.
GoOpponent == {"Netburners", "Slum Snakes", "The Black Hand", "Tetrads", "Daedalus", "Illuminati"}

\* rng is in hundredths: 30 is 0.3.
isSmart(faction, rng) ==
  IF faction = "Netburners" THEN FALSE
  ELSE IF faction = "Slum Snakes" THEN rng < 30
  ELSE IF faction = "The Black Hand" THEN rng < 80
  ELSE TRUE

\* getIlluminatiPriorityMove taking the corner only on a draw above 0.25.
getIlluminatiPriorityMove_CornerByRng(moves, rng) ==
  LET surroundMove == surround(moves)
      surroundWithin(n) == isMove(surroundMove) /\ surroundMove.newLibertyCount <= n
      hasMoves ==
        Len(SelectSeq(<<eyeMove(moves), eyeBlock(moves), growth(moves), defend(moves),
                        surroundMove>>, isMove))
      usePattern == rng > 25 \/ hasMoves = 0
  IN  IF isMove(capture(moves)) THEN capture(moves).point
      ELSE IF isMove(defendCapture(moves)) THEN defendCapture(moves).point
      ELSE IF isMove(eyeMove(moves)) THEN eyeMove(moves).point
      ELSE IF surroundWithin(1) THEN surroundMove.point
      ELSE IF isMove(eyeBlock(moves)) THEN eyeBlock(moves).point
      ELSE IF rng > 25 /\ isMove(corner(moves)) THEN corner(moves).point
      ELSE IF isMove(pattern(moves)) /\ usePattern THEN pattern(moves).point
      ELSE IF rng > 40 /\ isMove(jump(moves)) THEN jump(moves).point
      ELSE IF rng < 60 /\ surroundWithin(2) THEN surroundMove.point
      ELSE Null

\* Each priority function returns a point, or Null for null.
getIlluminatiPriorityMove(moves, rng) ==
  LET surroundMove == surround(moves)
      surroundWithin(n) == isMove(surroundMove) /\ surroundMove.newLibertyCount <= n
      hasMoves ==
        Len(SelectSeq(<<eyeMove(moves), eyeBlock(moves), growth(moves), defend(moves),
                        surroundMove>>, isMove))
      usePattern == rng > 25 \/ hasMoves = 0
  IN  IF isMove(capture(moves)) THEN capture(moves).point
      ELSE IF isMove(defendCapture(moves)) THEN defendCapture(moves).point
      ELSE IF isMove(eyeMove(moves)) THEN eyeMove(moves).point
      ELSE IF surroundWithin(1) THEN surroundMove.point
      ELSE IF isMove(eyeBlock(moves)) THEN eyeBlock(moves).point
      ELSE IF isMove(corner(moves)) THEN corner(moves).point
      ELSE IF isMove(pattern(moves)) /\ usePattern THEN pattern(moves).point
      ELSE IF rng > 40 /\ isMove(jump(moves)) THEN jump(moves).point
      ELSE IF rng < 60 /\ surroundWithin(2) THEN surroundMove.point
      ELSE Null

getNetburnersPriorityMove(moves, rng) ==
  IF rng < 20 THEN getIlluminatiPriorityMove(moves, rng)
  ELSE IF rng < 40 /\ isMove(expansion(moves)) THEN expansion(moves).point
  ELSE IF rng < 60 /\ isMove(growth(moves)) THEN growth(moves).point
  ELSE IF rng < 75 THEN random(moves).point
  ELSE Null

getSlumSnakesPriorityMove(moves, rng) ==
  IF isMove(defendCapture(moves)) THEN defendCapture(moves).point
  ELSE IF rng < 20 THEN getIlluminatiPriorityMove(moves, rng)
  ELSE IF rng < 60 /\ isMove(growth(moves)) THEN growth(moves).point
  ELSE IF rng < 65 THEN random(moves).point
  ELSE Null

getBlackHandPriorityMove(moves, rng) ==
  LET surroundMove == surround(moves)
      surroundWithin(n) == isMove(surroundMove) /\ surroundMove.newLibertyCount <= n
  IN  IF isMove(capture(moves)) THEN capture(moves).point
      ELSE IF surroundWithin(1) THEN surroundMove.point
      ELSE IF isMove(defendCapture(moves)) THEN defendCapture(moves).point
      ELSE IF surroundWithin(2) THEN surroundMove.point
      ELSE IF rng < 30 THEN getIlluminatiPriorityMove(moves, rng)
      ELSE IF rng < 75 /\ isMove(surroundMove) THEN surroundMove.point
      ELSE IF rng < 80 THEN random(moves).point
      ELSE Null

getTetradPriorityMove(moves, rng) ==
  LET surroundMove == surround(moves)
  IN  IF isMove(capture(moves)) THEN capture(moves).point
      ELSE IF isMove(defendCapture(moves)) THEN defendCapture(moves).point
      ELSE IF isMove(pattern(moves)) THEN pattern(moves).point
      ELSE IF isMove(surroundMove) /\ surroundMove.newLibertyCount <= 1 THEN surroundMove.point
      ELSE IF rng < 40 THEN getIlluminatiPriorityMove(moves, rng)
      ELSE Null

getDaedalusPriorityMove(moves, rng) ==
  IF rng < 90 THEN getIlluminatiPriorityMove(moves, rng) ELSE Null

getFactionMove(moves, faction, rng) ==
  IF faction = "Netburners" THEN getNetburnersPriorityMove(moves, rng)
  ELSE IF faction = "Slum Snakes" THEN getSlumSnakesPriorityMove(moves, rng)
  ELSE IF faction = "The Black Hand" THEN getBlackHandPriorityMove(moves, rng)
  ELSE IF faction = "Tetrads" THEN getTetradPriorityMove(moves, rng)
  ELSE IF faction = "Daedalus" THEN getDaedalusPriorityMove(moves, rng)
  ELSE getIlluminatiPriorityMove(moves, rng)

\* ------------------------------------------------------ 4.H  orchestrator
\* A Play that says the game is over in the place of a pass.
Pass_GameOver == [type |-> "gameOver", x |-> -1, y |-> -1]

\* A Play: x and y are null (-1 here) for a pass.
Pass == [type |-> "pass", x |-> -1, y |-> -1]

\* A GoValidity taken for falsy.
isTruthy_Falsy(validity) == FALSE

\* A GoValidity is a non-empty string: every one of them is truthy.
isTruthy(validity) == validity # ""

\* The points of the fallback list of getMove, past .filter(isNotNullish).
fallbackPoints(moves) ==
  SelectSeq(<<growth(moves).point, surround(moves).point, defend(moves).point,
              expansion(moves).point, pattern(moves).point, eyeMove(moves).point,
              eyeBlock(moves).point>>, isNotNullish)

\* The board of boardState as evaluateIfMoveIsValid(boardState, x, y, player,
\* false) leaves it: past the four precondition checks the move is played out
\* by evaluateMoveResult.
inputAfterValidityCheck(boardState, x, y, player) ==
  LET point == At(boardState.board, x, y)
  IN  IF \/ boardState.previousPlayer = "null"
         \/ boardState.previousPlayer = player
         \/ ~isNotNullish(point)
        THEN boardState.board
      ELSE IF boardState.board[point].color # "Empty" THEN boardState.board
      ELSE evaluateMoveResult(boardState.board, x, y, player, TRUE).input

\* The board of boardState after the filter of the fallback list has run
\* evaluateIfMoveIsValid on the points, one after the other.
RECURSIVE inputAfterFilter(_, _, _)
inputAfterFilter(boardState, points, player) ==
  IF points = <<>> THEN boardState.board
  ELSE inputAfterFilter([boardState EXCEPT !.board =
                           inputAfterValidityCheck(boardState, boardState.board[points[1]].x,
                                                   boardState.board[points[1]].y, player)],
                        Tail(points), player)

\* getMove(boardState, player, opponent) with the four values that
\* rng.random() gives, in the order of the draws: the Play returned and the
\* board of boardState as the call leaves it.  The generators read the board
\* and place their stones with evaluateMoveResult; the filter of the fallback
\* list is the last to do so.
getMoveCall(boardState, player, opponent, rng1, rng2, rng3, rng4) ==
  LET board == boardState.board
      kept(point) ==
        /\ isNotNullish(point)
        /\ isTruthy(evaluateIfMoveIsValid(boardState, board[point].x, board[point].y,
                                          player, FALSE))
      play(point) == [type |-> "move", x |-> board[point].x, y |-> board[point].y]
      chosen(chosenMove) == IF isNotNullish(chosenMove) THEN play(chosenMove) ELSE Pass
      picked(points) ==
        [play  |-> chosen(elementAt(SelectSeq(points, kept), rng4, Undefined)),
         input |-> inputAfterFilter(boardState, points, player)]
      decided(moves, priorityMove) ==
        IF isNotNullish(priorityMove) THEN [play |-> play(priorityMove), input |-> board]
        ELSE picked(fallbackPoints(moves))
      playWith(moves) == decided(moves, getFactionMove(moves, opponent, rng3))
  IN  playWith(getMoveOptions(boardState, player, rng2, isSmart(opponent, rng1)))

getMove(boardState, player, opponent, rng1, rng2, rng3, rng4) ==
  getMoveCall(boardState, player, opponent, rng1, rng2, rng3, rng4).play

\* ------------------------------------------------- the getters, as requested
\* The requests moves.<id>() that getIlluminatiPriorityMove makes, in the
\* order of the calls: a condition "if (moves.x())" followed by "return
\* moves.x()?.point" is two requests.
illuminatiRequests(moves, rng) ==
  LET surroundMove == surround(moves)
      surroundWithin(n) == isMove(surroundMove) /\ surroundMove.newLibertyCount <= n
      hasMoves ==
        Len(SelectSeq(<<eyeMove(moves), eyeBlock(moves), growth(moves), defend(moves),
                        surroundMove>>, isMove))
      usePattern == rng > 25 \/ hasMoves = 0
      fromJump == IF rng > 40
                    THEN (IF isMove(jump(moves)) THEN <<"jump", "jump">> ELSE <<"jump">>)
                    ELSE <<>>
      fromPattern == <<"eyeMove", "eyeBlock", "growth", "defend", "pattern">>
                       \o (IF isMove(pattern(moves)) /\ usePattern THEN <<"pattern">>
                           ELSE fromJump)
      fromCorner == <<"corner">>
                      \o (IF isMove(corner(moves)) THEN <<"corner">> ELSE fromPattern)
      fromEyeBlock == <<"eyeBlock">>
                        \o (IF isMove(eyeBlock(moves)) THEN <<"eyeBlock">> ELSE fromCorner)
      fromSurround == <<"surround">> \o (IF surroundWithin(1) THEN <<>> ELSE fromEyeBlock)
      fromEyeMove == <<"eyeMove">>
                       \o (IF isMove(eyeMove(moves)) THEN <<"eyeMove">> ELSE fromSurround)
      fromDefendCapture ==
        <<"defendCapture">>
          \o (IF isMove(defendCapture(moves)) THEN <<"defendCapture">> ELSE fromEyeMove)
  IN  <<"capture">> \o (IF isMove(capture(moves)) THEN <<"capture">> ELSE fromDefendCapture)

netburnersRequests(moves, rng) ==
  LET fromRandom == IF rng < 75 THEN <<"random">> ELSE <<>>
      fromGrowth == IF rng < 60
                      THEN (IF isMove(growth(moves)) THEN <<"growth", "growth">>
                            ELSE <<"growth">> \o fromRandom)
                      ELSE fromRandom
  IN  IF rng < 20 THEN illuminatiRequests(moves, rng)
      ELSE IF rng < 40
        THEN (IF isMove(expansion(moves)) THEN <<"expansion", "expansion">>
              ELSE <<"expansion">> \o fromGrowth)
      ELSE fromGrowth

slumSnakesRequests(moves, rng) ==
  LET fromRandom == IF rng < 65 THEN <<"random">> ELSE <<>>
      fromGrowth == IF rng < 60
                      THEN (IF isMove(growth(moves)) THEN <<"growth", "growth">>
                            ELSE <<"growth">> \o fromRandom)
                      ELSE fromRandom
  IN  <<"defendCapture">>
        \o (IF isMove(defendCapture(moves)) THEN <<"defendCapture">>
            ELSE IF rng < 20 THEN illuminatiRequests(moves, rng)
            ELSE fromGrowth)

blackHandRequests(moves, rng) ==
  LET surroundMove == surround(moves)
      surroundWithin(n) == isMove(surroundMove) /\ surroundMove.newLibertyCount <= n
      fromDraw == IF rng < 30 THEN illuminatiRequests(moves, rng)
                  ELSE IF rng < 75 /\ isMove(surroundMove) THEN <<>>
                  ELSE IF rng < 80 THEN <<"random">>
                  ELSE <<>>
      fromDefendCapture ==
        <<"defendCapture">>
          \o (IF isMove(defendCapture(moves)) THEN <<"defendCapture">>
              ELSE IF surroundWithin(2) THEN <<>>
              ELSE fromDraw)
  IN  <<"capture">>
        \o (IF isMove(capture(moves)) THEN <<"capture">>
            ELSE <<"surround">> \o (IF surroundWithin(1) THEN <<>> ELSE fromDefendCapture))

tetradRequests(moves, rng) ==
  LET surroundMove == surround(moves)
      fromSurround ==
        <<"surround">>
          \o (IF isMove(surroundMove) /\ surroundMove.newLibertyCount <= 1 THEN <<>>
              ELSE IF rng < 40 THEN illuminatiRequests(moves, rng)
              ELSE <<>>)
      fromPattern == <<"pattern">>
                       \o (IF isMove(pattern(moves)) THEN <<"pattern">> ELSE fromSurround)
      fromDefendCapture ==
        <<"defendCapture">>
          \o (IF isMove(defendCapture(moves)) THEN <<"defendCapture">> ELSE fromPattern)
  IN  <<"capture">> \o (IF isMove(capture(moves)) THEN <<"capture">> ELSE fromDefendCapture)

daedalusRequests(moves, rng) ==
  IF rng < 90 THEN illuminatiRequests(moves, rng) ELSE <<>>

factionRequests(moves, faction, rng) ==
  IF faction = "Netburners" THEN netburnersRequests(moves, rng)
  ELSE IF faction = "Slum Snakes" THEN slumSnakesRequests(moves, rng)
  ELSE IF faction = "The Black Hand" THEN blackHandRequests(moves, rng)
  ELSE IF faction = "Tetrads" THEN tetradRequests(moves, rng)
  ELSE IF faction = "Daedalus" THEN daedalusRequests(moves, rng)
  ELSE illuminatiRequests(moves, rng)

\* The requests of one getMove decision: those of the persona, and those of
\* the fallback list when the persona gives no priority move.
getMoveRequests(moves, opponent, rng3) ==
  factionRequests(moves, opponent, rng3)
    \o (IF isNotNullish(getFactionMove(moves, opponent, rng3)) THEN <<>>
        ELSE <<"growth", "surround", "defend", "expansion", "pattern", "eyeMove",
               "eyeBlock">>)

\* How often the getter id computes its value for the requests.  A request
\* runs the getter, which stores nothing.  The getters capture and
\* defendCapture ask retrieveMoveOption for surround and defend, which runs
\* that getter the first time and hands back the stored value afterwards.
computations(requests, id) ==
  LET asked(getter) == \E k \in 1 .. Len(requests) : requests[k] = getter
  IN  Cardinality({k \in 1 .. Len(requests) : requests[k] = id})
        + (IF id = "surround" /\ asked("capture") THEN 1 ELSE 0)
        + (IF id = "defend" /\ asked("defendCapture") THEN 1 ELSE 0)

\* The computations of each getter in the decision getMove(boardState,
\* player, opponent) with the draws rng1, rng2, rng3.
getMoveComputations(boardState, player, opponent, rng1, rng2, rng3) ==
  LET counted(requests) == [id \in MoveType |-> computations(requests, id)]
      decision(moves) == counted(getMoveRequests(moves, opponent, rng3))
  IN  decision(getMoveOptions(boardState, player, rng2, isSmart(opponent, rng1)))

\* get_move(simpleBoard, ai, player)
get_move(simple, ai, player, rng1, rng2, rng3, rng4) ==
  getMove(boardStateFromSimpleBoard(simple, ai), player, ai, rng1, rng2, rng3, rng4)

\* The SimpleBoards that are drawn: square, over X, O, '.', '#', with at most
\* maxMarked cells other than '.', at most maxOffline of them '#'.
SimpleBoardOf(offline, stones, colorOf) ==
  [c \in 1 .. BoardSize |->
     [r \in 1 .. BoardSize |->
        IF <<c - 1, r - 1>> \in offline THEN "#"
        ELSE IF <<c - 1, r - 1>> \in stones THEN colorOf[<<c - 1, r - 1>>]
        ELSE "."]]

SimpleBoards(maxMarked, maxOffline) ==
  UNION {UNION {{SimpleBoardOf(offline, stones, colorOf) : colorOf \in [stones -> {"X", "O"}]} :
                  stones \in {S \in SUBSET (Pos \ offline) :
                                 Cardinality(S) + Cardinality(offline) <= maxMarked}} :
           offline \in {A \in SUBSET Pos : Cardinality(A) <= maxOffline}}

\* ------------------------------------------------------------------ state
VARIABLES
  simpleBoard,  \* the SimpleBoard the board was built from
  boardState,   \* the BoardState object the operations are given
  op,           \* the operation that ran last
  args,         \* its arguments
  ret           \* what it returned

vars == <<simpleBoard, boardState, op, args, ret>>

NoArgs == [x |-> 0, y |-> 0, player |-> "Empty", flag |-> FALSE]

\* A BoardState as the caller holds it before ingestion: the board built from
\* the text, not analysed yet.
FreshBoardState(simple) ==
  [board |-> boardFromSimpleBoard(simple),
   previousPlayer |-> "Empty",
   previousBoards |-> <<>>,
   ai |-> "Illuminati",
   passCount |-> 0,
   cheatCount |-> 0,
   cheatCountForWhite |-> 0]

\* ------------------------------------------- the chain engine, as a machine
InitChains ==
  /\ simpleBoard \in SimpleBoards(MaxMarked, MaxOffline)
  /\ boardState = FreshBoardState(simpleBoard)
  /\ op = "boardFromSimpleBoard"
  /\ args = NoArgs
  /\ ret = <<>>

\* updateChains(board): in place, with the full reset.
UpdateChains ==
  /\ op = "boardFromSimpleBoard"
  /\ boardState' = [boardState EXCEPT !.board = updateChains(boardState.board, TRUE)]
  /\ op' = "updateChains"
  /\ UNCHANGED <<simpleBoard, args, ret>>

\* simpleBoardFromBoard(board), before or after the analysis.
SimpleBoardFromBoard ==
  /\ op \in {"boardFromSimpleBoard", "updateChains"}
  /\ ret' = simpleBoardFromBoard(boardState.board)
  /\ op' = "simpleBoardFromBoard"
  /\ UNCHANGED <<simpleBoard, boardState, args>>

NextChains == UpdateChains \/ SimpleBoardFromBoard

SpecChains == InitChains /\ [][NextChains]_vars

\* ----------------------------------------------------------------- claims
\* The orthogonal steps between grid positions.
Adjacent(p, q) ==
  \/ (p[1] = q[1] /\ (p[2] = q[2] + 1 \/ q[2] = p[2] + 1))
  \/ (p[2] = q[2] /\ (p[1] = q[1] + 1 \/ q[1] = p[1] + 1))

Live(board) == {p \in DOMAIN board : board[p].color # "null"}

\* The points reachable from the set seen by orthogonal steps through
\* non-absent points of one colour.
RECURSIVE SameColorClosure(_, _)
SameColorClosure(board, seen) ==
  LET more == {q \in Live(board) \ seen :
                 \E p \in seen : Adjacent(p, q) /\ board[q].color = board[p].color}
  IN  IF more = {} THEN seen ELSE SameColorClosure(board, seen \cup more)

Component(board, p) == SameColorClosure(board, {p})

\* C7: after updateChains with the full reset, two non-absent points have the
\* same chain id if and only if they have the same colour and are joined by a
\* path of orthogonal steps through points of that colour; every non-absent
\* point has an id.
C7_ChainsAreComponents ==
  op = "updateChains" =>
    \A p \in Live(boardState.board) :
      /\ boardState.board[p].chain # <<>>
      /\ \A q \in Live(boardState.board) :
           (boardState.board[p].chain = boardState.board[q].chain)
             <=> (q \in Component(boardState.board, p))

\* A board where an offline cell lies between two stones of a colour that end
\* in different chains while two adjacent stones share one.
C7_Witness ==
  /\ op = "updateChains"
  /\ \E p, q, r \in Live(boardState.board) :
       /\ boardState.board[p].color = "Black"
       /\ boardState.board[q].color = "Black"
       /\ boardState.board[r].color = "Black"
       /\ Adjacent(p, q)
       /\ boardState.board[p].chain = boardState.board[q].chain
       /\ boardState.board[r].chain # boardState.board[p].chain
       /\ \E h \in Pos \ Live(boardState.board) : Adjacent(q, h) /\ Adjacent(h, r)

\* C8: after updateChains, the liberties of every member of every chain are,
\* without repetition, the Empty points adjacent to a member of the chain
\* that are not in the chain.
C8_LibertiesExact ==
  op = "updateChains" =>
    \A p \in Live(boardState.board) :
      LET board == boardState.board
          libs == board[p].liberties
          chain == {q \in Live(board) : board[q].chain = board[p].chain}
      IN  /\ libs # NullLiberties
          /\ \A i, j \in 1 .. Len(libs) : libs[i] = libs[j] => i = j
          /\ Range(libs) = {q \in Live(board) \ chain :
                              /\ board[q].color = "Empty"
                              /\ \E m \in chain : Adjacent(m, q)}

\* A chain of two stones with a liberty that touches both of them.
C8_Witness ==
  /\ op = "updateChains"
  /\ \E p, q \in Live(boardState.board) :
       /\ p # q
       /\ boardState.board[p].color = "White"
       /\ boardState.board[p].chain = boardState.board[q].chain
       /\ \E l \in Range(boardState.board[p].liberties) : Adjacent(l, p) /\ Adjacent(l, q)

\* C9: simpleBoardFromBoard(boardFromSimpleBoard(s)) = s, and every point
\* carries the column and row index of its place in the board.
C9_RoundTrip ==
  /\ op = "simpleBoardFromBoard" => ret = simpleBoard
  /\ \A p \in Live(boardState.board) :
       boardState.board[p].x = p[1] /\ boardState.board[p].y = p[2]

\* A round trip of a text that is not symmetric and holds all four characters.
C9_Witness ==
  /\ op = "simpleBoardFromBoard"
  /\ ret = simpleBoard
  /\ \A ch \in {"X", "O", ".", "#"} :
       \E c, r \in 1 .. BoardSize : simpleBoard[c][r] = ch
  /\ \E c, r \in 1 .. BoardSize : simpleBoard[c][r] # simpleBoard[r][c]

\* ------------------------------------------- the adjudicator, as a machine
\* A position of a game: no chain of stones is without a liberty (every
\* placement ends with updateCaptures, which removes such chains).
NoDeadChain(board) ==
  \A p \in Live(board) :
    board[p].color \in Players => LengthOr(board[p].liberties, 0) > 0

\* The text of board with player's stone put on (x,y) and the stones on the
\* points of removed taken off: a position a game may have gone through.
TextWith(board, x, y, player, removed) ==
  boardStringFromBoard(
    [p \in Pos |-> IF p = <<x, y>> THEN [board[p] EXCEPT !.color = player]
                   ELSE IF p \in removed THEN [board[p] EXCEPT !.color = "Empty"]
                   ELSE board[p]])

\* The histories drawn for a move of player at (x,y): none; the position with
\* the stone simply added; that position less one neighbouring stone; that
\* position less the whole neighbouring chain of one neighbour; the position
\* as it is now.
Histories(board, x, y, player) ==
  IF ~isNotNullish(At(board, x, y)) THEN {<<>>, <<boardStringFromBoard(board)>>}
  ELSE LET nbrs == {q \in Live(board) : Adjacent(q, <<x, y>>) /\ board[q].color \in Players}
           chainOf(q) == {r \in Live(board) : board[r].chain = board[q].chain}
       IN  {<<>>, <<boardStringFromBoard(board)>>, <<TextWith(board, x, y, player, {})>>}
             \cup {<<TextWith(board, x, y, player, {q})>> : q \in nbrs}
             \cup {<<boardStringFromBoard(board), TextWith(board, x, y, player, chainOf(q))>> :
                     q \in nbrs}

\* The targets drawn: every grid position and one position off each side.
Targets == Pos \cup {<<-1, 0>>, <<0, BoardSize>>}

InitValid ==
  /\ simpleBoard \in SimpleBoards(ValidMaxMarked, MaxOffline)
  /\ boardState = boardStateFromSimpleBoard(simpleBoard, "Illuminati")
  /\ NoDeadChain(boardState.board)
  /\ op = "boardStateFromSimpleBoard"
  /\ args = NoArgs
  /\ ret = <<>>

\* The caller's record of the game: who moved last (null once the game is
\* over) and the positions gone through.
SetHistory ==
  /\ op = "boardStateFromSimpleBoard"
  /\ \E previousPlayer \in {"Empty", "Black", "null"}, t \in Targets, player \in Players :
       \E previousBoards \in (IF previousPlayer = "Empty"
                                THEN Histories(boardState.board, t[1], t[2], player)
                                ELSE {<<>>}) :
         /\ boardState' = [boardState EXCEPT !.previousPlayer = previousPlayer,
                                             !.previousBoards = previousBoards]
         /\ args' = [x |-> t[1], y |-> t[2], player |-> player, flag |-> FALSE]
  /\ op' = "ready"
  /\ UNCHANGED <<simpleBoard, ret>>

\* evaluateIfMoveIsValid(boardState, x, y, player, shortcut)
EvaluateIfMoveIsValid ==
  /\ op = "ready"
  /\ \E shortcut \in BOOLEAN :
       /\ ret' = evaluateIfMoveIsValid(boardState, args.x, args.y, args.player, shortcut)
       /\ args' = [args EXCEPT !.flag = shortcut]
  /\ op' = "evaluateIfMoveIsValid"
  /\ UNCHANGED <<simpleBoard, boardState>>

NextValid == SetHistory \/ EvaluateIfMoveIsValid

SpecValid == InitValid /\ [][NextValid]_vars

\* The rule of the game, stated on colours alone: the position after player's
\* stone is put on (x,y).  The opposing stones left without a liberty are
\* taken off; when there are none, player's own stones without a liberty are.
RuleLiberties(board, p) ==
  {q \in Live(board) : board[q].color = "Empty" /\ \E m \in Component(board, p) : Adjacent(m, q)}

RuleDead(board, color) ==
  {p \in Live(board) : board[p].color = color /\ RuleLiberties(board, p) = {}}

RuleRemove(board, dead) ==
  [p \in DOMAIN board |-> IF p \in dead THEN [board[p] EXCEPT !.color = "Empty"] ELSE board[p]]

RulePlace(board, x, y, player) ==
  LET placed == [board EXCEPT ![<<x, y>>].color = player]
      opposing == IF player = "Black" THEN "White" ELSE "Black"
  IN  IF RuleDead(placed, opposing) # {} THEN RuleRemove(placed, RuleDead(placed, opposing))
      ELSE RuleRemove(placed, RuleDead(placed, player))

\* The call that ran was given a player to move and an Empty point.
ToMoveOnEmpty ==
  /\ op = "evaluateIfMoveIsValid"
  /\ boardState.previousPlayer \notin {"null", args.player}
  /\ isNotNullish(At(boardState.board, args.x, args.y))
  /\ boardState.board[<<args.x, args.y>>].color = "Empty"

\* C4: evaluateIfMoveIsValid checks gameOver, notYourTurn, pointBroken,
\* pointNotEmpty in that order: the first of the four conditions that holds
\* is the classification returned, and none of valid, noSuicide,
\* boardRepeated is returned when one of them holds.
C4_PreconditionOrder ==
  op = "evaluateIfMoveIsValid" =>
    LET over == boardState.previousPlayer = "null"
        notTurn == boardState.previousPlayer = args.player
        broken == ~isNotNullish(At(boardState.board, args.x, args.y))
        occupied == ~broken /\ boardState.board[<<args.x, args.y>>].color # "Empty"
    IN  /\ over => ret = "gameOver"
        /\ (~over /\ notTurn) => ret = "notYourTurn"
        /\ (~over /\ ~notTurn /\ broken) => ret = "pointBroken"
        /\ (~over /\ ~notTurn /\ ~broken /\ occupied) => ret = "pointNotEmpty"
        /\ (over \/ notTurn \/ broken \/ occupied)
             => ret \notin {"valid", "noSuicide", "boardRepeated"}

\* The player who moved last asks for an occupied point, and is told that it
\* is not their turn.
C4_Witness ==
  /\ op = "evaluateIfMoveIsValid"
  /\ boardState.previousPlayer = args.player
  /\ isNotNullish(At(boardState.board, args.x, args.y))
  /\ boardState.board[<<args.x, args.y>>].color = args.player
  /\ ret = "notYourTurn"

SuicidePoint ==
  LET board == boardState.board
      nbrs == {q \in Live(board) : Adjacent(q, <<args.x, args.y>>)}
  IN  \A q \in nbrs :
        /\ board[q].color # "Empty"
        /\ board[q].color = args.player => Cardinality(RuleLiberties(board, q)) <= 1
        /\ board[q].color # args.player => Cardinality(RuleLiberties(board, q)) > 1

EvalCoords == -1 .. BoardSize

InitEval ==
  /\ simpleBoard \in SimpleBoards(ValidMaxMarked, MaxOffline)
  /\ boardState = boardStateFromSimpleBoard(simpleBoard, "Illuminati")
  /\ op = "boardStateFromSimpleBoard"
  /\ args = NoArgs
  /\ ret = <<>>

\* evaluateMoveResult(board, x, y, player, resetChains): boardState.board is
\* the object given, ret the board returned.
EvaluateMoveResult ==
  /\ op = "boardStateFromSimpleBoard"
  /\ \E x \in EvalCoords, y \in EvalCoords, player \in Players, resetChains \in BOOLEAN :
       LET r == evaluateMoveResult(boardState.board, x, y, player, resetChains)
       IN  /\ boardState' = [boardState EXCEPT !.board = r.input]
           /\ ret' = r.result
           /\ args' = [x |-> x, y |-> y, player |-> player, flag |-> resetChains]
  /\ op' = "evaluateMoveResult"
  /\ UNCHANGED simpleBoard

NextEval == EvaluateMoveResult

SpecEval == InitEval /\ [][NextEval]_vars

RngDraws ==
  {<<10, 0, 10, 0>>, <<10, 99, 30, 99>>, <<50, 0, 50, 99>>, <<90, 99, 70, 0>>, <<90, 0, 95, 50>>}

\* Positions drawn besides the small ones: a corner cut off by two offline
\* cells; a stone in atari in the corner; a wall across the middle; stones
\* of both colours in contact.
ScenarioBoards ==
  {SimpleBoardOf({<<0, 1>>, <<1, 0>>}, {}, <<>>),
   SimpleBoardOf({}, {<<0, 0>>, <<0, 1>>}, (<<0, 0>> :> "O") @@ (<<0, 1>> :> "X")),
   SimpleBoardOf({}, {<<0, 1>>, <<1, 1>>, <<2, 1>>},
                 (<<0, 1>> :> "X") @@ (<<1, 1>> :> "X") @@ (<<2, 1>> :> "X")),
   SimpleBoardOf({<<2, 2>>}, {<<1, 1>>, <<1, 2>>, <<0, 2>>},
                 (<<1, 1>> :> "X") @@ (<<1, 2>> :> "O") @@ (<<0, 2>> :> "X"))}

InitMove ==
  /\ simpleBoard \in SimpleBoards(MoveMaxMarked, MoveMaxOffline) \cup ScenarioBoards
  /\ boardState = boardStateFromSimpleBoard(simpleBoard, "Illuminati")
  /\ NoDeadChain(boardState.board)
  /\ op = "boardStateFromSimpleBoard"
  /\ args = NoArgs
  /\ ret = <<>>

\* The caller's record of the game so far: who moved last (null once the
\* game is over) and how many passes were just made.
SetGame ==
  /\ op = "boardStateFromSimpleBoard"
  /\ \E game \in {<<"White", 1>>, <<"Black", 1>>, <<"null", 0>>} :
       boardState' = [boardState EXCEPT !.previousPlayer = game[1],
                                        !.passCount = game[2]]
  /\ op' = "ready"
  /\ UNCHANGED <<simpleBoard, args, ret>>

\* A call of getMove is over: the Play is handed back and the board of the
\* BoardState is as the call left it.
Returned(call) ==
  /\ ret' = call.play
  /\ boardState' = [boardState EXCEPT !.board = call.input]

\* getMove(boardState, player, opponent): straight after ingestion it is the
\* call that get_move makes.
GetMove ==
  /\ op \in {"boardStateFromSimpleBoard", "ready"}
  /\ \E player \in Players, opponent \in GoOpponent, rng \in RngDraws :
       /\ Returned(getMoveCall(boardState, player, opponent, rng[1], rng[2], rng[3], rng[4]))
       /\ args' = [player |-> player, opponent |-> opponent, rng |-> rng]
  /\ op' = "getMove"
  /\ UNCHANGED simpleBoard

NextMove == SetGame \/ GetMove

SpecMove == InitMove /\ [][NextMove]_vars

\* The point of a Play that is a move, as the adjudicator classifies it on
\* the fast path for the player the move was asked for.
ValidityOfPlay ==
  evaluateIfMoveIsValid(boardState, ret.x, ret.y, args.player, TRUE)

\* C1: getMove returns Pass or a move to a point that evaluateIfMoveIsValid
\* (fast path) classifies valid for the player on the BoardState given.
C1_MoveIsValidOrPass ==
  op = "getMove" => (ret = Pass \/ ValidityOfPlay = "valid")

\* C2: when evaluateIfMoveIsValid classifies no point of the board valid for
\* the player, getMove returns Pass.
C2_PassWhenNoValidMove ==
  (/\ op = "getMove"
   /\ \A p \in Pos :
        evaluateIfMoveIsValid(boardState, p[1], p[2], args.player, TRUE) # "valid")
    => ret = Pass

\* C3: when findDisputedTerritory(boardState, player) is empty and passCount
\* is at least 1, getMove returns Pass.
C3_PassWhenSettled ==
  (/\ op = "getMove"
   /\ boardState.passCount >= 1
   /\ Len(findDisputedTerritory(boardState, args.player, FALSE)) = 0)
    => ret = Pass

\* ------------------------------------------------ the captures, as a machine
\* The boards are drawn with stones enough for chains of both colours to be
\* without a liberty at once.
InitCaptures ==
  /\ simpleBoard \in SimpleBoards(CaptureMaxMarked, CaptureMaxOffline)
  /\ boardState = FreshBoardState(simpleBoard)
  /\ op = "boardFromSimpleBoard"
  /\ args = NoArgs
  /\ ret = <<>>

\* updateCaptures(board, playerWhoMoved) on the board as built.
UpdateCaptures ==
  /\ op = "boardFromSimpleBoard"
  /\ \E playerWhoMoved \in {"Black", "White"} :
       /\ boardState' = [boardState EXCEPT
                           !.board = updateCaptures(boardState.board, playerWhoMoved, TRUE)]
       /\ args' = [NoArgs EXCEPT !.player = playerWhoMoved, !.flag = TRUE]
  /\ op' = "updateCaptures"
  /\ UNCHANGED <<simpleBoard, ret>>

NextCaptures == UpdateCaptures

SpecCaptures == InitCaptures /\ [][NextCaptures]_vars

ColorsOf(board) == [p \in DOMAIN board |-> board[p].color]

OpposingOf(player) == IF player = "Black" THEN "White" ELSE "Black"

\* C11: updateCaptures(board, playerWhoMoved) gives priority to captures: when
\* some opposing chain has no liberty, the stones of every opposing chain
\* without a liberty become Empty and no other point changes colour, also
\* when chains of the player who moved have no liberty; a stone of the player
\* who moved becomes Empty only when no opposing chain is without a liberty.
C11_CapturePriority ==
  op = "updateCaptures" =>
    LET before == boardFromSimpleBoard(simpleBoard)
        after == boardState.board
        opposingDead == RuleDead(before, OpposingOf(args.player))
    IN  /\ opposingDead # {} =>
             ColorsOf(after) = ColorsOf(RuleRemove(before, opposingDead))
        /\ \A p \in Live(before) :
             (before[p].color = args.player /\ after[p].color = "Empty")
               => opposingDead = {}

\* updateCaptures ran on a board where chains of both colours had no liberty.
C11_Witness ==
  /\ op = "updateCaptures"
  /\ RuleDead(boardFromSimpleBoard(simpleBoard), OpposingOf(args.player)) # {}
  /\ RuleDead(boardFromSimpleBoard(simpleBoard), args.player) # {}

PatternScenarioBoards ==
  {SimpleBoardOf({<<2, 0>>, <<2, 1>>, <<2, 2>>}, {<<0, 0>>, <<1, 0>>},
                 (<<0, 0>> :> "X") @@ (<<1, 0>> :> "O")),
   SimpleBoardOf({<<2, 0>>, <<2, 1>>}, {<<0, 0>>, <<1, 0>>},
                 (<<0, 0>> :> "X") @@ (<<1, 0>> :> "O")),
   SimpleBoardOf({}, {<<1, 0>>, <<2, 0>>}, (<<1, 0>> :> "X") @@ (<<2, 0>> :> "O"))}

InitPattern ==
  /\ simpleBoard \in SimpleBoards(PatternMaxMarked, PatternMaxOffline) \cup PatternScenarioBoards
  /\ boardState = FreshBoardState(simpleBoard)
  /\ op = "boardFromSimpleBoard"
  /\ args = NoArgs
  /\ ret = <<>>

\* The search of findAnyMatchedPatterns at one point (x,y) of the board: does
\* the neighbourhood match a pattern of the expanded catalog.
MatchedPattern ==
  /\ op = "boardFromSimpleBoard"
  /\ \E player \in Players, p \in Pos :
       /\ ret' = matchedPattern(boardState.board, p[1], p[2], player,
                                expandAllThreeByThreePatterns)
       /\ args' = [NoArgs EXCEPT !.x = p[1], !.y = p[2], !.player = player]
  /\ op' = "matchedPattern"
  /\ UNCHANGED <<simpleBoard, boardState>>

NextPattern == MatchedPattern

SpecPattern == InitPattern /\ [][NextPattern]_vars

\* The eight rotations and reflections of the square of side n: g[1] quarter
\* turns after g[2] reflections.
Symmetries == (0 .. 3) \X (0 .. 1)

RECURSIVE QuarterTurns(_, _, _)
QuarterTurns(n, k, p) ==
  IF k = 0 THEN p ELSE QuarterTurns(n, k - 1, <<p[2], n - 1 - p[1]>>)

ImageOfPoint(n, g, p) == QuarterTurns(n, g[1], IF g[2] = 1 THEN <<n - 1 - p[1], p[2]>> ELSE p)

\* The SimpleBoard whose cell at the image of p is the cell of simple at p.
ImageOfSimpleBoard(simple, g) ==
  [c \in 1 .. Len(simple) |->
     [r \in 1 .. Len(simple) |->
        LET p == CHOOSE q \in Grid(Len(simple)) :
                   ImageOfPoint(Len(simple), g, q) = <<c - 1, r - 1>>
        IN  simple[p[1] + 1][p[2] + 1]]]

\* The verdict of the matcher at the image of p on the image of the board.
MatchedOnImage(simple, g, p, player) ==
  matchedPattern(boardFromSimpleBoard(ImageOfSimpleBoard(simple, g)),
                 ImageOfPoint(Len(simple), g, p)[1], ImageOfPoint(Len(simple), g, p)[2],
                 player, expandAllThreeByThreePatterns)

\* C13: the verdict of the pattern matcher is symmetric: for every board,
\* player and point p and each of the eight rotations and reflections g of
\* the board, the neighbourhood of p matches some pattern of the expanded
\* catalog if and only if the neighbourhood of g(p) on the board g(board)
\* does.
C13_PatternSymmetry ==
  op = "matchedPattern" =>
    \A g \in Symmetries : ret = MatchedOnImage(simpleBoard, g, <<args.x, args.y>>, args.player)

\* A pattern matched at a point of the edge, where part of the neighbourhood
\* is outside the grid, on a board that is not its own mirror image.
C13_Witness ==
  /\ op = "matchedPattern"
  /\ ret = TRUE
  /\ <<args.x, args.y>> # <<1, 1>>
  /\ \A g \in Symmetries \ {<<0, 0>>} : ImageOfSimpleBoard(simpleBoard, g) # simpleBoard

\* The reading of the pattern characters in which " " stands for every cell
\* that is off the board, absent or outside the grid.
OffBoardMatches(board, stringPoint, point, player) ==
  IF stringPoint = " " THEN ~isNotNullish(point)
  ELSE matches(board, stringPoint, point, player)

OffBoardEvery(board, neighborhoodArray, patternArr, player) ==
  \A index \in 1 .. Len(patternArr) :
    OffBoardMatches(board, patternArr[index], neighborhoodArray[index], player)

OffBoardFind(board, neighborhoodArray, player, patterns) ==
  \E i \in 1 .. Len(patterns) :
    OffBoardEvery(board, neighborhoodArray, Flat(patterns[i]), player)

\* The verdict at the point p under that reading.
OffBoardMatched(board, p, player) ==
  OffBoardFind(board, Flat(getNeighborhood(board, p[1], p[2])), player,
               expandAllThreeByThreePatterns)

\* C18: the pattern character " " matches a neighbourhood cell that is off
\* the board, an absent cell as well as a cell outside the grid bounds, so
\* that the matcher finds a pattern at a point exactly when one matches with
\* " " read so (the side patterns match at points of the board edge).
C18_SpaceMatchesOffBoard ==
  op = "matchedPattern" =>
    ret = OffBoardMatched(boardState.board, <<args.x, args.y>>, args.player)

\* ------------------------------------- the orchestrator on the scenario boards
\* A SimpleBoard of side n.
SimpleBoardOfSide(n, offline, stones, colorOf) ==
  [c \in 1 .. n |->
     [r \in 1 .. n |->
        IF <<c - 1, r - 1>> \in offline THEN "#"
        ELSE IF <<c - 1, r - 1>> \in stones THEN colorOf[<<c - 1, r - 1>>]
        ELSE "."]]

\* The empty board, and the empty board one size up; a white stone with one
\* liberty left, at (2,3); a board where White has walled off a corner; a
\* white stone and a black stone each with one liberty left, in two corners.
LargeBoards ==
  {SimpleBoardOfSide(ScenarioSize, {}, {}, <<>>),
   SimpleBoardOfSide(ScenarioSize + 1, {}, {}, <<>>),
   SimpleBoardOfSide(ScenarioSize, {}, {<<1, 2>>, <<2, 1>>, <<2, 2>>, <<3, 2>>},
                     (<<1, 2>> :> "X") @@ (<<2, 1>> :> "X") @@ (<<2, 2>> :> "O")
                       @@ (<<3, 2>> :> "X")),
   SimpleBoardOfSide(ScenarioSize, {},
                     {<<1, 2>>, <<1, 3>>, <<1, 4>>, <<2, 1>>, <<3, 1>>, <<4, 1>>},
                     (<<1, 2>> :> "O") @@ (<<1, 3>> :> "O") @@ (<<1, 4>> :> "O")
                       @@ (<<2, 1>> :> "O") @@ (<<3, 1>> :> "O") @@ (<<4, 1>> :> "O")),
   SimpleBoardOfSide(ScenarioSize, {}, {<<0, 0>>, <<0, 1>>, <<4, 4>>, <<4, 3>>},
                     (<<0, 0>> :> "O") @@ (<<0, 1>> :> "X") @@ (<<4, 4>> :> "X")
                       @@ (<<4, 3>> :> "O"))}

InitLarge ==
  /\ simpleBoard \in LargeBoards
  /\ boardState = boardStateFromSimpleBoard(simpleBoard, "Illuminati")
  /\ op = "boardStateFromSimpleBoard"
  /\ args = NoArgs
  /\ ret = <<>>

\* The caller's record of who moved last and of the passes.
SetTurn ==
  /\ op = "boardStateFromSimpleBoard"
  /\ \E previousPlayer \in Players, passCount \in {0, 1} :
       boardState' = [boardState EXCEPT !.previousPlayer = previousPlayer,
                                        !.passCount = passCount]
  /\ op' = "ready"
  /\ UNCHANGED <<simpleBoard, args, ret>>

NextLarge == SetTurn \/ GetMove

SpecLarge == InitLarge /\ [][NextLarge]_vars

EmptySimpleBoard(simple) ==
  \A c, r \in 1 .. Len(simple) : simple[c][r] = "."

\* C14: on an all-Empty board of side N >= 5 without absent cells, with no
\* previous boards and passCount 0, getMove for Black against Illuminati
\* returns the move at (N-3, N-3), whatever the draws.
C14_EmptyBoardCorner ==
  (/\ op = "getMove"
   /\ EmptySimpleBoard(simpleBoard)
   /\ Len(simpleBoard) >= 5
   /\ boardState.previousBoards = <<>>
   /\ boardState.passCount = 0
   /\ boardState.previousPlayer # "Black"
   /\ args.player = "Black"
   /\ args.opponent = "Illuminati")
    => ret = [type |-> "move", x |-> Len(simpleBoard) - 3, y |-> Len(simpleBoard) - 3]

\* getMove answered for Black against Illuminati on the empty board with a
\* draw above 0.25, which would let the pattern getter through.
C14_Witness ==
  /\ op = "getMove"
  /\ EmptySimpleBoard(simpleBoard)
  /\ Len(simpleBoard) >= 5
  /\ boardState.passCount = 0
  /\ boardState.previousPlayer = "White"
  /\ args.player = "Black"
  /\ args.opponent = "Illuminati"
  /\ args.rng[3] > 25

\* The points that are the one liberty of an opposing chain and are among the
\* available spaces of the decision.
AtariPoints(state, player, smart) ==
  {l \in Live(state.board) :
     /\ inSpaces(findDisputedTerritory(state, player, smart), l)
     /\ \E q \in Live(state.board) :
          /\ state.board[q].color = OpposingOf(player)
          /\ RuleLiberties(state.board, q) = {l}}

\* The Play is a move that the adjudicator classifies valid and that takes an
\* opposing stone off the board.
ValidCapture(state, player, play) ==
  /\ play.type = "move"
  /\ evaluateIfMoveIsValid(state, play.x, play.y, player, TRUE) = "valid"
  /\ \E q \in Live(state.board) :
       /\ state.board[q].color = OpposingOf(player)
       /\ evaluationBoardOf(state.board, play.x, play.y, player, FALSE)[q].color = "Empty"

CaptureFirst(state, player, opponent, rng, play) ==
  AtariPoints(state, player, isSmart(opponent, rng[1])) # {}
    => ValidCapture(state, player, play)

\* C15: whenever some opposing chain has exactly one liberty and that liberty
\* is among the available spaces of the player, getMove under Illuminati,
\* Tetrads and The Black Hand returns, whatever the draws, a move that the
\* adjudicator classifies valid and whose placement by evaluateMoveResult
\* makes at least one opposing stone Empty.
C15_CaptureFirst ==
  (op = "getMove" /\ args.opponent \in {"Illuminati", "Tetrads", "The Black Hand"})
    => CaptureFirst(boardState, args.player, args.opponent, args.rng, ret)

\* getMove answered for one of the three personas on a position where an
\* opposing chain was down to one liberty that the player could take, while a
\* chain of the player was down to one liberty as well.
C15_Witness ==
  /\ op = "getMove"
  /\ args.opponent \in {"Illuminati", "Tetrads", "The Black Hand"}
  /\ AtariPoints(boardState, args.player, isSmart(args.opponent, args.rng[1])) # {}
  /\ \E q \in Live(boardState.board) :
       /\ boardState.board[q].color = args.player
       /\ Cardinality(RuleLiberties(boardState.board, q)) = 1

\* The points of the list that the adjudicator classifies valid for player.
ValidAmong(state, player, points) ==
  {points[i] : i \in {k \in 1 .. Len(points) :
                        evaluateIfMoveIsValid(state, points[k][1], points[k][2], player, TRUE)
                          = "valid"}}

\* Pass when no point is valid, else a move at one of the valid points.
PassOrValidPoint(valid, play) ==
  IF valid = {} THEN play = Pass
  ELSE play.type = "move" /\ <<play.x, play.y>> \in valid

\* What getMove owes when the options are moves: nothing when the persona
\* picks a priority move, else Pass or a valid point of the fallback list.
FallbackOwed(state, player, opponent, rng, play, moves) ==
  isNotNullish(getFactionMove(moves, opponent, rng[3]))
    \/ PassOrValidPoint(ValidAmong(state, player, fallbackPoints(moves)), play)

FallbackChoice(state, player, opponent, rng, play) ==
  FallbackOwed(state, player, opponent, rng, play,
               getMoveOptions(state, player, rng[2], isSmart(opponent, rng[1])))

\* C16: when the persona yields no priority move, getMove returns Pass if and
\* only if none of growth, surround, defend, expansion, pattern, eyeMove and
\* eyeBlock yields a point that the adjudicator classifies valid for the
\* player; otherwise it returns a move at one of those valid points.
C16_FallbackChoice ==
  op = "getMove" => FallbackChoice(boardState, args.player, args.opponent, args.rng, ret)

NoPriorityMove(state, player, opponent, rng) ==
  ~isNotNullish(getFactionMove(getMoveOptions(state, player, rng[2],
                                              isSmart(opponent, rng[1])),
                               opponent, rng[3]))

\* The persona gave no priority move and getMove played a point of the
\* fallback list while it was the player's turn.
C16_Witness ==
  /\ op = "getMove"
  /\ ret.type = "move"
  /\ boardState.previousPlayer = OpposingOf(args.player)
  /\ NoPriorityMove(boardState, args.player, args.opponent, args.rng)

\* ----------------------------------------- the decisions, getter by getter
InitDecision ==
  /\ simpleBoard \in ScenarioBoards \cup {SimpleBoardOf({}, {}, <<>>)}
  /\ boardState = boardStateFromSimpleBoard(simpleBoard, "Illuminati")
  /\ op = "boardStateFromSimpleBoard"
  /\ args = NoArgs
  /\ ret = <<>>

\* One decision of getMove, looked at for the work it does: how often each
\* getter computed its value.
Decide ==
  /\ op \in {"boardStateFromSimpleBoard", "ready"}
  /\ \E player \in Players, opponent \in GoOpponent, rng \in RngDraws :
       /\ ret' = getMoveComputations(boardState, player, opponent, rng[1], rng[2], rng[3])
       /\ args' = [player |-> player, opponent |-> opponent, rng |-> rng]
  /\ op' = "getMoveComputations"
  /\ UNCHANGED <<simpleBoard, boardState>>

NextDecision == SetGame \/ Decide

SpecDecision == InitDecision /\ [][NextDecision]_vars

\* The generators that the getters of the decision stand for.
Generators ==
  {"surround", "defend", "growth", "expansion", "jump", "eyeMove", "eyeBlock", "pattern",
   "corner", "random"}

\* C17: within one getMove decision each of the generators surround, defend,
\* growth, expansion, jump, eyeMove, eyeBlock, pattern, corner and random is
\* computed at most once; a later request is answered from the stored result.
C17_ComputedOnce ==
  op = "getMoveComputations" => \A id \in Generators : ret[id] <= 1

\* ------------------------------------------------ the corner move, as a machine
\* The subsets of S of at most k elements.
RECURSIVE SubsetsUpTo(_, _)
SubsetsUpTo(S, k) ==
  IF k = 0 THEN {{}}
  ELSE LET smaller == SubsetsUpTo(S, k - 1)
       IN  smaller \cup {A \cup {e} : A \in smaller, e \in S}

\* The SimpleBoards of side n with at most maxMarked cells other than '.', at
\* most maxOffline of them '#'.
SimpleBoardsOfSide(n, maxMarked, maxOffline) ==
  UNION {UNION {{SimpleBoardOfSide(n, offline, stones, colorOf) :
                   colorOf \in [stones -> {"X", "O"}]} :
                  stones \in SubsetsUpTo(Grid(n) \ offline, maxMarked - Cardinality(offline))} :
           offline \in SubsetsUpTo(Grid(n), maxOffline)}

\* Boards of a side on which the four corner windows have four different
\* inner points.
InitCorner ==
  /\ simpleBoard \in SimpleBoardsOfSide(CornerSize, CornerMaxMarked, CornerMaxOffline)
  /\ boardState = FreshBoardState(simpleBoard)
  /\ op = "boardFromSimpleBoard"
  /\ args = NoArgs
  /\ ret = <<>>

\* getCornerMove(board) on the board as built; ret is the reference returned.
GetCornerMove ==
  /\ op = "boardFromSimpleBoard"
  /\ ret' = getCornerMove(boardState.board)
  /\ op' = "getCornerMove"
  /\ UNCHANGED <<simpleBoard, boardState, args>>

NextCorner == GetCornerMove

SpecCorner == InitCorner /\ [][NextCorner]_vars

\* The four windows in the order of the claim, each with its inner point,
\* for a board of side n.
CornerWindows(n) ==
  LET m == n - 3
  IN  <<[x1 |-> m, y1 |-> m, x2 |-> n - 1, y2 |-> n - 1, inner |-> <<m, m>>],
        [x1 |-> 0, y1 |-> m, x2 |-> 2, y2 |-> n - 1, inner |-> <<2, m>>],
        [x1 |-> 0, y1 |-> 0, x2 |-> 2, y2 |-> 2, inner |-> <<2, 2>>],
        [x1 |-> m, y1 |-> 0, x2 |-> n - 1, y2 |-> 2, inner |-> <<m, 2>>]>>

\* A window qualifies: at least 7 cells that are not absent, and no stone.
Qualifies(simple, w) ==
  LET cells == {p \in Grid(Len(simple)) : /\ w.x1 <= p[1] /\ p[1] <= w.x2
                                          /\ w.y1 <= p[2] /\ p[2] <= w.y2}
  IN  /\ Cardinality({p \in cells : simple[p[1] + 1][p[2] + 1] # "#"}) >= 7
      /\ \A p \in cells : simple[p[1] + 1][p[2] + 1] \in {".", "#"}

\* What the claim lets getCornerMove return on the board simple.
CornerOwed(simple, point) ==
  LET windows == CornerWindows(Len(simple))
      qualifying == {k \in 1 .. 4 : Qualifies(simple, windows[k])}
      first == CHOOSE k \in qualifying : \A j \in qualifying : k <= j
  IN  IF qualifying = {} THEN point = Null
      ELSE /\ point = windows[first].inner
           /\ simple[point[1] + 1][point[2] + 1] = "."

\* C19: getCornerMove looks at the windows (m,m)-(size-1,size-1),
\* (0,m)-(2,size-1), (0,0)-(2,2), (m,0)-(size-1,2), m = size-3, in that
\* order and returns the inner point (m,m), (2,m), (2,2), (m,2) of the first
\* one that has at least 7 non-absent cells and no stone; it returns null
\* only when no window qualifies, and the point returned is a non-absent
\* Empty point.
C19_CornerMove ==
  op = "getCornerMove" => CornerOwed(simpleBoard, ret)

\* ------------------------------------------------- the order of Illuminati
\* Values of the persona's draw on both sides of each of its thresholds.
RngLevels == {0, 25, 26, 40, 41, 59, 60, 99}

\* The six entries that come first, each the Move it offers or NoMove.
IlluminatiSix(moves) ==
  <<capture(moves), defendCapture(moves), eyeMove(moves),
    IF isMove(surround(moves)) /\ surround(moves).newLibertyCount <= 1
      THEN surround(moves) ELSE NoMove,
    eyeBlock(moves), corner(moves)>>

\* The point the order gives for the draw rng: that of the first entry of the
\* six that is not null; with all six null, pattern on a draw above 0.25 or
\* when no other move exists, then jump on a draw above 0.4, then surround
\* with newLibertyCount <= 2 on a draw below 0.6, else null.
IlluminatiOwed(moves, rng) ==
  LET found == SelectSeq(IlluminatiSix(moves), isMove)
      noOther == \A id \in {"eyeMove", "eyeBlock", "growth", "defend", "surround"} :
                   ~isMove(moves[id])
  IN  IF Len(found) > 0 THEN found[1].point
      ELSE IF isMove(pattern(moves)) /\ (rng > 25 \/ noOther) THEN pattern(moves).point
      ELSE IF rng > 40 /\ isMove(jump(moves)) THEN jump(moves).point
      ELSE IF rng < 60 /\ isMove(surround(moves)) /\ surround(moves).newLibertyCount <= 2
        THEN surround(moves).point
      ELSE Null

\* The persona follows the order on every draw, and the Play of the decision
\* is at the point the order gives for the draw that was made.
FollowsOrder(moves, rng, play) ==
  /\ \A r \in RngLevels : getIlluminatiPriorityMove(moves, r) = IlluminatiOwed(moves, r)
  /\ getFactionMove(moves, "Illuminati", rng) = IlluminatiOwed(moves, rng)
  /\ isNotNullish(IlluminatiOwed(moves, rng))
       => play.type = "move" /\ <<play.x, play.y>> = IlluminatiOwed(moves, rng)

\* What each getter of the decision gives, getter by getter.
OffersOf(moves) ==
  [capture |-> moves["capture"], defendCapture |-> moves["defendCapture"],
   eyeMove |-> moves["eyeMove"], eyeBlock |-> moves["eyeBlock"],
   pattern |-> moves["pattern"], growth |-> moves["growth"],
   expansion |-> moves["expansion"], jump |-> moves["jump"], defend |-> moves["defend"],
   surround |-> moves["surround"], corner |-> moves["corner"], random |-> moves["random"]]

IlluminatiOrder(state, player, rng, play) ==
  FollowsOrder(OffersOf(getMoveOptions(state, player, rng[2], isSmart("Illuminati", rng[1]))),
               rng[3], play)

\* C20: Illuminati returns the point of the first entry that is not null in
\* the sequence capture, defendCapture, eyeMove, surround with
\* newLibertyCount <= 1, eyeBlock, corner, whatever the draw; the draw has a
\* say only when all six are null: pattern if rng > 0.25 or no other move
\* exists, then jump if rng > 0.4, then surround with newLibertyCount <= 2 if
\* rng < 0.6, else null.
C20_IlluminatiOrder ==
  (op = "getMove" /\ args.opponent = "Illuminati")
    => IlluminatiOrder(boardState, args.player, args.rng, ret)

\* Entries k of the six that are not null, and the rest of the order.
OfferedAmongSix(moves) == {k \in 1 .. 6 : isMove(IlluminatiSix(moves)[k])}

SixOffered(state, player, rng) ==
  OfferedAmongSix(OffersOf(getMoveOptions(state, player, rng[2],
                                          isSmart("Illuminati", rng[1]))))

\* Illuminati decided where capture had nothing to offer and two later
\* entries of the six had.
C20_Witness ==
  /\ op = "getMove"
  /\ args.opponent = "Illuminati"
  /\ 1 \notin SixOffered(boardState, args.player, args.rng)
  /\ Cardinality(SixOffered(boardState, args.player, args.rng)) >= 2

\* ---------------------------------------------- the surround move, as a machine
\* Positions drawn besides the small ones: a white chain of four stones and a
\* black chain of three, the two liberties of each the two points of the one
\* empty chain between them; a white chain of seven stones around such an
\* empty chain.
SurroundScenarioBoards ==
  {SimpleBoardOf({}, {<<0, 0>>, <<1, 0>>, <<2, 0>>, <<0, 1>>, <<0, 2>>, <<1, 2>>, <<2, 2>>},
                 (<<0, 0>> :> "O") @@ (<<1, 0>> :> "O") @@ (<<2, 0>> :> "O")
                   @@ (<<0, 1>> :> "O") @@ (<<0, 2>> :> "X") @@ (<<1, 2>> :> "X")
                   @@ (<<2, 2>> :> "X")),
   SimpleBoardOf({}, {<<0, 0>>, <<1, 0>>, <<2, 0>>, <<0, 1>>, <<0, 2>>, <<1, 2>>, <<2, 2>>},
                 [p \in {<<0, 0>>, <<1, 0>>, <<2, 0>>, <<0, 1>>, <<0, 2>>, <<1, 2>>, <<2, 2>>}
                    |-> "O"])}

InitSurround ==
  /\ simpleBoard \in SimpleBoards(SurroundMaxMarked, SurroundMaxOffline)
                       \cup SurroundScenarioBoards
  /\ boardState = boardStateFromSimpleBoard(simpleBoard, "Illuminati")
  /\ NoDeadChain(boardState.board)
  /\ op = "boardStateFromSimpleBoard"
  /\ args = NoArgs
  /\ ret = <<>>

\* The surround getter of a decision of player: getSurroundMove on the
\* available spaces of the decision; args.flag is smart.
GetSurroundMove ==
  /\ op = "boardStateFromSimpleBoard"
  /\ \E player \in Players, smart \in BOOLEAN :
       /\ ret' = getSurroundMove(boardState.board, player,
                                 findDisputedTerritory(boardState, player, smart), smart)
       /\ args' = [NoArgs EXCEPT !.player = player, !.flag = smart]
  /\ op' = "getSurroundMove"
  /\ UNCHANGED <<simpleBoard, boardState>>

NextSurround == GetSurroundMove

SpecSurround == InitSurround /\ [][NextSurround]_vars

\* The opposing stones next to p whose chain has the fewest liberties among
\* the opposing chains next to p.
WeakestOpposing(board, p, player) ==
  LET opposing == {q \in Live(board) : Adjacent(p, q) /\ board[q].color = OpposingOf(player)}
  IN  {q \in opposing :
         \A o \in opposing :
           Cardinality(RuleLiberties(board, q)) <= Cardinality(RuleLiberties(board, o))}

\* The chain of q has exactly two liberties, both in one empty chain, and
\* more than three stones.
EnclosedAndLong(board, q) ==
  /\ Cardinality(RuleLiberties(board, q)) = 2
  /\ \A l1, l2 \in RuleLiberties(board, q) : l2 \in Component(board, l1)
  /\ Cardinality(Component(board, q)) > 3

\* player's stone on p takes an opposing stone off the board.
Captures(board, p, player) ==
  \E q \in Live(board) :
    /\ board[q].color = OpposingOf(player)
    /\ RulePlace(board, p[1], p[2], player)[q].color = "Empty"

\* The stone put on p stays, in a chain with at least two liberties.
KeepsTwoLiberties(board, p, player) ==
  /\ RulePlace(board, p[1], p[2], player)[p].color = player
  /\ Cardinality(RuleLiberties(RulePlace(board, p[1], p[2], player), p)) >= 2

SurroundSafe(board, p, player) ==
  \/ Captures(board, p, player)
  \/ KeepsTwoLiberties(board, p, player)
  \/ \E q \in WeakestOpposing(board, p, player) : EnclosedAndLong(board, q)

\* C21: with smart = true, every move returned by getSurroundMove that does
\* not capture leaves the chain of the stone placed with at least 2 liberties
\* after the placement, except when the weakest adjacent opposing chain has
\* exactly 2 liberties lying in a single empty chain and more than 3 stones.
C21_SurroundSafe ==
  (op = "getSurroundMove" /\ args.flag /\ isMove(ret))
    => SurroundSafe(boardState.board, ret.point, args.player)

\* A smart surround move that captures nothing, next to a stone of the
\* player's own, the weakest opposing chain beside it not being of the
\* excepted kind.
C21_Witness ==
  /\ op = "getSurroundMove"
  /\ args.flag
  /\ isMove(ret)
  /\ ~Captures(boardState.board, ret.point, args.player)
  /\ \E m \in Live(boardState.board) :
       Adjacent(m, ret.point) /\ boardState.board[m].color = args.player
  /\ \A q \in WeakestOpposing(boardState.board, ret.point, args.player) :
       ~EnclosedAndLong(boardState.board, q)

\* ------------------------------------------------- the eye moves, as a machine
\* Positions drawn besides the small ones: a black chain along one edge with
\* two absent corners opposite, where the centre point makes three eyes at
\* once; the same with an absent cell beside the centre; two white chains of
\* two stones on opposite edges and a black stone between them, the centre
\* being a liberty of both white chains; the same with two black stones.
EyeScenarioBoards ==
  {SimpleBoardOf({<<0, 2>>, <<2, 2>>}, {<<0, 0>>, <<1, 0>>, <<2, 0>>},
                 (<<0, 0>> :> "X") @@ (<<1, 0>> :> "X") @@ (<<2, 0>> :> "X")),
   SimpleBoardOf({<<0, 2>>, <<2, 2>>, <<0, 1>>}, {<<0, 0>>, <<1, 0>>, <<2, 0>>},
                 (<<0, 0>> :> "X") @@ (<<1, 0>> :> "X") @@ (<<2, 0>> :> "X")),
   SimpleBoardOf({}, {<<0, 0>>, <<0, 1>>, <<2, 0>>, <<2, 1>>, <<1, 2>>},
                 (<<0, 0>> :> "O") @@ (<<0, 1>> :> "O") @@ (<<2, 0>> :> "O")
                   @@ (<<2, 1>> :> "O") @@ (<<1, 2>> :> "X")),
   SimpleBoardOf({}, {<<0, 0>>, <<0, 1>>, <<2, 0>>, <<2, 1>>, <<1, 2>>, <<0, 2>>},
                 (<<0, 0>> :> "O") @@ (<<0, 1>> :> "O") @@ (<<2, 0>> :> "O")
                   @@ (<<2, 1>> :> "O") @@ (<<1, 2>> :> "X") @@ (<<0, 2>> :> "X"))}

InitEyes ==
  /\ simpleBoard \in SimpleBoards(EyeMaxMarked, EyeMaxOffline) \cup EyeScenarioBoards
  /\ boardState = boardStateFromSimpleBoard(simpleBoard, "Illuminati")
  /\ NoDeadChain(boardState.board)
  /\ op = "boardStateFromSimpleBoard"
  /\ args = NoArgs
  /\ ret = <<>>

\* getEyeCreationMoves(board, player, availableSpaces) as the eyeMove getter
\* of a decision of player reaches it; args.flag is smart.
GetEyeCreationMoves ==
  /\ op = "boardStateFromSimpleBoard"
  /\ \E player \in Players, smart \in BOOLEAN :
       /\ ret' = getEyeCreationMoves(boardState.board, player,
                                     findDisputedTerritory(boardState, player, smart), 99)
       /\ args' = [NoArgs EXCEPT !.player = player, !.flag = smart]
  /\ op' = "getEyeCreationMoves"
  /\ UNCHANGED <<simpleBoard, boardState>>

\* getEyeBlockingMove(board, player, availableSpaces) as the eyeBlock getter
\* of a decision of player reaches it.
GetEyeBlockingMove ==
  /\ op = "boardStateFromSimpleBoard"
  /\ \E player \in Players, smart \in BOOLEAN :
       /\ ret' = getEyeBlockingMove(boardState.board, player,
                                    findDisputedTerritory(boardState, player, smart))
       /\ args' = [NoArgs EXCEPT !.player = player, !.flag = smart]
  /\ op' = "getEyeBlockingMove"
  /\ UNCHANGED <<simpleBoard, boardState>>

\* getAllEyesByChainId(board, player)
GetAllEyesByChainId ==
  /\ op = "boardStateFromSimpleBoard"
  /\ \E player \in Players :
       /\ ret' = getAllEyesByChainId(boardState.board, player)
       /\ args' = [NoArgs EXCEPT !.player = player]
  /\ op' = "getAllEyesByChainId"
  /\ UNCHANGED <<simpleBoard, boardState>>

NextEyes == GetEyeCreationMoves \/ GetEyeBlockingMove \/ GetAllEyesByChainId

SpecEyes == InitEyes /\ [][NextEyes]_vars

\* The number of living groups of player: chains with two eyes or more.
LivingGroups(board, player) ==
  Cardinality({i \in 1 .. Len(getAllEyes(board, player)) :
                 Len(getAllEyes(board, player)[i]) >= 2})

\* The chain of the stone m of player has more than one stone and is not
\* living.
GrowingChain(board, m, player) ==
  /\ board[m].color = player
  /\ Cardinality(Component(board, m)) > 1
  /\ \A i \in 1 .. Len(getAllEyesByChainId(board, player)) :
       getAllEyesByChainId(board, player)[i].id = board[m].chain
         => Len(getAllEyesByChainId(board, player)[i].eyes) < 2

\* The four orthogonal neighbours of q, and those of them that count towards
\* the shape of an eye: stones of player and cells that are off the board,
\* with the Empty ones as well when emptyToo is set.
Around(q) == {<<q[1] + 1, q[2]>>, <<q[1] - 1, q[2]>>, <<q[1], q[2] + 1>>, <<q[1], q[2] - 1>>}

Shaping(board, q, player, emptyToo) ==
  {n \in Around(q) : \/ n \notin Live(board)
                     \/ board[n].color = player
                     \/ (emptyToo /\ board[n].color = "Empty")}

\* The points q that are owed as candidates.
EyePointsOwed(board, player, spaces, before, emptyToo) ==
  {q \in Live(board) :
     /\ inSpaces(spaces, q)
     /\ \E m \in Live(board) : Adjacent(m, q) /\ GrowingChain(board, m, player)
     /\ Cardinality(Shaping(board, q, player, emptyToo)) >= 2
     /\ \E n \in Around(q) \cap Live(board) : board[n].color = "Empty"
     /\ LivingGroups(evaluationBoardOf(board, q[1], q[2], player, FALSE), player) > before}

EyeCandidates(state, player, smart, moves, emptyToo) ==
  \A q \in EyePointsOwed(state.board, player, findDisputedTerritory(state, player, smart),
                         LivingGroups(state.board, player), emptyToo) :
    \E i \in 1 .. Len(moves) : moves[i].point = q /\ moves[i].createsLife

\* C22, as the code has it: every liberty q in availableSpaces of a friendly
\* chain of length > 1 that is not yet living, such that q has at least two
\* orthogonal neighbours that are friendly stones or off the board and at
\* least one Empty neighbour, and such that playing q strictly increases the
\* number of living groups, is an eye-creation candidate (with createsLife
\* set), so that eyeMove is not null whenever such a q exists.
C22_EyeCandidates ==
  op = "getEyeCreationMoves" =>
    EyeCandidates(boardState, args.player, args.flag, ret, FALSE)

\* C22: every liberty q in availableSpaces of a friendly chain of length > 1
\* that is not yet living, such that q has at least two orthogonal neighbours
\* that are not opposing stones (friendly, Empty or off-board) and at least
\* one Empty neighbour, and such that playing q strictly increases the number
\* of living groups, is an eye-creation candidate.
C22_NonOpposingNeighbours ==
  op = "getEyeCreationMoves" =>
    EyeCandidates(boardState, args.player, args.flag, ret, TRUE)

HasEyePointOwed(state, player, smart) ==
  EyePointsOwed(state.board, player, findDisputedTerritory(state, player, smart),
                LivingGroups(state.board, player), FALSE) # {}

\* getEyeCreationMoves ran where some liberty of a chain that is not living
\* has the shape and makes a living group when played.
C22_Witness ==
  /\ op = "getEyeCreationMoves"
  /\ HasEyePointOwed(boardState, args.player, args.flag)

\* The points of the moves of the list that create life, or that do not.
PointsOfMoves(moves, createsLife) ==
  {moves[i].point : i \in {k \in 1 .. Len(moves) : moves[k].createsLife = createsLife}}

\* The rule of the claim over the eye-creation moves of the opponent.
BlocksTheOnePoint(opponentEyeMoves, move) ==
  LET twoEyePoints == PointsOfMoves(opponentEyeMoves, TRUE)
      oneEyePoints == PointsOfMoves(opponentEyeMoves, FALSE)
  IN  IF Cardinality(twoEyePoints) = 1 THEN twoEyePoints = {move.point}
      ELSE IF twoEyePoints = {} /\ Cardinality(oneEyePoints) = 1
        THEN oneEyePoints = {move.point}
      ELSE move = NoMove

BlockingRule(state, player, smart, move) ==
  BlocksTheOnePoint(getEyeCreationMoves(state.board, OpposingOf(player),
                                        findDisputedTerritory(state, player, smart), 5),
                    move)

\* C23: if exactly one point of the board is a two-eye-creating move for the
\* opponent among its chains of at most 5 liberties, getEyeBlockingMove
\* returns that point, also when the point is a liberty shared by several
\* opposing chains; if there is no such point and exactly one point is a
\* one-eye-creating move, it returns that point; otherwise null.
C23_EyeBlockUnique ==
  op = "getEyeBlockingMove" => BlockingRule(boardState, args.player, args.flag, ret)

\* --------------------------------------------- the territory, as a machine
\* Positions drawn besides the small ones: a white chain around the corner
\* (0,0), its one liberty, with black chains all around it; the same with a
\* second liberty of the white chain outside the corner.
TerritoryScenarioBoards ==
  {SimpleBoardOf({}, {<<0, 1>>, <<1, 1>>, <<1, 0>>, <<0, 2>>, <<1, 2>>, <<2, 1>>, <<2, 0>>},
                 (<<0, 1>> :> "O") @@ (<<1, 1>> :> "O") @@ (<<1, 0>> :> "O")
                   @@ (<<0, 2>> :> "X") @@ (<<1, 2>> :> "X") @@ (<<2, 1>> :> "X")
                   @@ (<<2, 0>> :> "X")),
   SimpleBoardOf({}, {<<0, 1>>, <<1, 1>>, <<1, 0>>, <<0, 2>>, <<1, 2>>, <<2, 1>>},
                 (<<0, 1>> :> "O") @@ (<<1, 1>> :> "O") @@ (<<1, 0>> :> "O")
                   @@ (<<0, 2>> :> "X") @@ (<<1, 2>> :> "X") @@ (<<2, 1>> :> "X"))}

InitTerritory ==
  /\ simpleBoard \in SimpleBoards(TerritoryMaxMarked, TerritoryMaxOffline)
                       \cup TerritoryScenarioBoards
  /\ boardState = boardStateFromSimpleBoard(simpleBoard, "Illuminati")
  /\ NoDeadChain(boardState.board)
  /\ op = "boardStateFromSimpleBoard"
  /\ args = NoArgs
  /\ ret = <<>>

\* findDisputedTerritory(boardState, player, excludeFriendlyEyes); args.flag
\* is excludeFriendlyEyes.
FindDisputedTerritory ==
  /\ op \in {"boardStateFromSimpleBoard", "ready"}
  /\ \E player \in Players, excludeFriendlyEyes \in BOOLEAN :
       /\ ret' = findDisputedTerritory(boardState, player, excludeFriendlyEyes)
       /\ args' = [NoArgs EXCEPT !.player = player, !.flag = excludeFriendlyEyes]
  /\ op' = "findDisputedTerritory"
  /\ UNCHANGED <<simpleBoard, boardState>>

\* The points of a sequence of references.
PointsOf(points) == {points[i] : i \in 1 .. Len(points)}

\* The points inside an eye of a chain of player that has two eyes or more.
InLivingEyes(board, player) ==
  UNION {UNION {PointsOf(getAllEyes(board, player)[i][j]) :
                  j \in 1 .. Len(getAllEyes(board, player)[i])} :
           i \in {k \in 1 .. Len(getAllEyes(board, player)) :
                    Len(getAllEyes(board, player)[k]) >= 2}}

\* The stones next to a point of the set region.
Bordering(board, region) ==
  {q \in Live(board) : board[q].color \in Players /\ \E c \in region : Adjacent(c, q)}

\* The empty chain of e is a potential eye of color: at most 0.4 times the
\* non-absent cells and at most 11 points, and bordered by stones of color
\* only.
PotentialEyeOf(board, e, color) ==
  /\ board[e].color = "Empty"
  /\ 10 * Cardinality(Component(board, e)) <= 4 * Cardinality(Live(board))
  /\ Cardinality(Component(board, e)) <= 11
  /\ Bordering(board, Component(board, e)) # {}
  /\ \A q \in Bordering(board, Component(board, e)) : board[q].color = color

\* p is a liberty of a chain bordering its potential eye that has at most 4
\* liberties, all of them inside the eye, and touches a stone of player.
Attackable(board, p, player) ==
  \E q \in Bordering(board, Component(board, p)) :
    /\ p \in RuleLiberties(board, q)
    /\ Cardinality(RuleLiberties(board, q)) <= 4
    /\ RuleLiberties(board, q) \subseteq Component(board, p)
    /\ \E m \in Component(board, q), s \in Live(board) :
         Adjacent(m, s) /\ board[s].color = player

DisputedOwed(state, player, excludeFriendlyEyes, friendlyEyes) ==
  {p \in Live(state.board) :
     /\ state.board[p].color = "Empty"
     /\ evaluateIfMoveIsValid(state, p[1], p[2], player, TRUE) = "valid"
     /\ excludeFriendlyEyes => p \notin friendlyEyes
     /\ \/ ~PotentialEyeOf(state.board, p, OpposingOf(player))
        \/ Attackable(state.board, p, player)}

TerritoryRule(state, player, excludeFriendlyEyes, points) ==
  /\ PointsOf(points)
       = DisputedOwed(state, player, excludeFriendlyEyes, InLivingEyes(state.board, player))
  /\ Cardinality(PointsOf(points)) = Len(points)

\* C24: findDisputedTerritory(boardState, player, excludeFriendlyEyes)
\* returns exactly the points that are valid moves for the player on the
\* adjudicator's fast path, are not inside an eye of a friendly chain with at
\* least 2 eyes when excludeFriendlyEyes is set, and are either outside every
\* potential eye of the opponent or a liberty of a bordering opponent chain
\* that has at most 4 liberties, touches at least one chain of the player and
\* has all its liberties inside that potential eye.
C24_DisputedTerritory ==
  op = "findDisputedTerritory" => TerritoryRule(boardState, args.player, args.flag, ret)

\* findDisputedTerritory returned a point inside a potential eye of the
\* opponent while another Empty point was left out.
C24_Witness ==
  /\ op = "findDisputedTerritory"
  /\ \E i \in 1 .. Len(ret) :
       PotentialEyeOf(boardState.board, ret[i], OpposingOf(args.player))
  /\ \E p \in Live(boardState.board) :
       boardState.board[p].color = "Empty" /\ p \notin PointsOf(ret)

\* getExpansionMoveArray(board, availableSpaces) on the available spaces of
\* a decision: findDisputedTerritory(boardState, player, smart); args.flag is
\* smart.
GetExpansionMoveArray ==
  /\ op \in {"boardStateFromSimpleBoard", "ready"}
  /\ \E player \in Players, smart \in BOOLEAN :
       /\ ret' = getExpansionMoveArray(boardState.board,
                                       findDisputedTerritory(boardState, player, smart))
       /\ args' = [NoArgs EXCEPT !.player = player, !.flag = smart]
  /\ op' = "getExpansionMoveArray"
  /\ UNCHANGED <<simpleBoard, boardState>>

NextTerritory == SetGame \/ FindDisputedTerritory \/ GetExpansionMoveArray

SpecTerritory == InitTerritory /\ [][NextTerritory]_vars

\* The four orthogonal neighbours of p all exist and are Empty.
OpenPoint(board, p) ==
  \A q \in {<<p[1], p[2] + 1>>, <<p[1] + 1, p[2]>>, <<p[1], p[2] - 1>>, <<p[1] - 1, p[2]>>} :
    q \in Live(board) /\ board[q].color = "Empty"

\* p is an empty chain of one point with a stone of color beside it.
StoneBeside(board, p, color) ==
  \E q \in Live(board) : Adjacent(p, q) /\ board[q].color = color

ContestedPoint(board, p) ==
  /\ Component(board, p) = {p}
  /\ StoneBeside(board, p, "Black")
  /\ StoneBeside(board, p, "White")

\* The stones beside p that count are those that are a chain of their own.
LoneStoneBeside(board, p, color) ==
  \E q \in Live(board) :
    Adjacent(p, q) /\ board[q].color = color /\ Component(board, q) = {q}

ExpansionOwed(board, available, lone) ==
  IF \E p \in available : OpenPoint(board, p)
    THEN {p \in available : OpenPoint(board, p)}
    ELSE IF lone
      THEN {p \in available : /\ Component(board, p) = {p}
                              /\ LoneStoneBeside(board, p, "Black")
                              /\ LoneStoneBeside(board, p, "White")}
      ELSE {p \in available : ContestedPoint(board, p)}

ExpansionRule(state, player, smart, moves, lone) ==
  /\ PointsOfMoves(moves, FALSE)
       = ExpansionOwed(state.board, PointsOf(findDisputedTerritory(state, player, smart)), lone)
  /\ \A i \in 1 .. Len(moves) :
       moves[i].oldLibertyCount = -1 /\ moves[i].newLibertyCount = -1

\* C25: getExpansionMoveArray returns exactly the available points whose
\* four orthogonal neighbours all exist and are Empty; when there is no such
\* point it returns exactly the available points that form a single-point
\* empty chain bordered by at least one Black stone and at least one White
\* stone, whatever the size of the chains those stones belong to.
C25_ExpansionCandidates ==
  op = "getExpansionMoveArray"
    => ExpansionRule(boardState, args.player, args.flag, ret, FALSE)

\* What the code does: in the second case only the bordering stones that are
\* a chain of one stone count.
ExpansionOfLoneStones ==
  op = "getExpansionMoveArray"
    => ExpansionRule(boardState, args.player, args.flag, ret, TRUE)

\* ------------------------------------------------ getMove, await by await
\* The positions on which the calls are followed step by step.
InitLive ==
  /\ simpleBoard \in ScenarioBoards \cup {SimpleBoardOf({}, {}, <<>>)}
  /\ boardState = boardStateFromSimpleBoard(simpleBoard, "Illuminati")
  /\ NoDeadChain(boardState.board)
  /\ op = "boardStateFromSimpleBoard"
  /\ args = NoArgs
  /\ ret = <<>>

\* How many times the requests run findAnyMatchedPatterns.
patternCalls(requests) ==
  Cardinality({k \in 1 .. Len(requests) : requests[k] = "pattern"})

\* What one call of getMove does between its awaits, once the draws are
\* known: sleeps is the number of awaits of sleep(10), one per column of the
\* board in every run of findAnyMatchedPatterns; priority says that the
\* persona gave a priority move, so that the call returns without its last
\* waitCycle(); call is the Play handed back with the board as it is left.
getMoveAwaits(state, player, opponent, rng) ==
  LET planned(moves) ==
        [sleeps   |-> patternCalls(getMoveRequests(moves, opponent, rng[3]))
                        * LengthOf(state.board),
         priority |-> isNotNullish(getFactionMove(moves, opponent, rng[3])),
         call     |-> getMoveCall(state, player, opponent,
                                  rng[1], rng[2], rng[3], rng[4])]
  IN  planned(getMoveOptions(state, player, rng[2], isSmart(opponent, rng[1])))

\* getMove(boardState, player, opponent) is called and awaits waitCycle().
\* The code between two awaits is synchronous and nothing else touches the
\* board meanwhile: what it computes is fixed by the board and the draws, and
\* args.run holds it from the call on.  args.slept counts the awaits of
\* sleep(10) that are over.
CallGetMove ==
  /\ op \in {"boardStateFromSimpleBoard", "ready"}
  /\ \E player \in Players, opponent \in GoOpponent, rng \in RngDraws :
       args' = [player |-> player, opponent |-> opponent, rng |-> rng,
                run |-> getMoveAwaits(boardState, player, opponent, rng), slept |-> 0]
  /\ op' = "getMove.waitCycle"
  /\ UNCHANGED <<simpleBoard, boardState, ret>>

\* Where getMove stands once no sleep(10) lies ahead: at its return when the
\* persona gave a priority move, at its last waitCycle() otherwise.
AfterPatterns ==
  IF args.run.priority
    THEN /\ op' = "getMove"
         /\ ret' = args.run.call.play
         /\ boardState' = [boardState EXCEPT !.board = args.run.call.input]
    ELSE op' = "getMove.lastWaitCycle" /\ UNCHANGED <<boardState, ret>>

\* The first waitCycle() of getMove is over: the draws are made, the move
\* options are built and the persona makes its requests, up to the first
\* await of sleep(10) if there is one.
WaitCycle ==
  /\ op = "getMove.waitCycle"
  /\ IF args.run.sleeps > 0
       THEN op' = "findAnyMatchedPatterns.sleep" /\ UNCHANGED <<boardState, ret>>
       ELSE AfterPatterns
  /\ UNCHANGED <<simpleBoard, args>>

\* One await of sleep(10) in findAnyMatchedPatterns is over.
PatternSleep ==
  /\ op = "findAnyMatchedPatterns.sleep"
  /\ args' = [args EXCEPT !.slept = args.slept + 1]
  /\ IF args.slept + 1 < args.run.sleeps
       THEN op' = "findAnyMatchedPatterns.sleep" /\ UNCHANGED <<boardState, ret>>
       ELSE AfterPatterns
  /\ UNCHANGED simpleBoard

\* The last waitCycle() of getMove is over: the move chosen from the
\* fallback list, or a pass, is returned.
LastWaitCycle ==
  /\ op = "getMove.lastWaitCycle"
  /\ op' = "getMove"
  /\ ret' = args.run.call.play
  /\ boardState' = [boardState EXCEPT !.board = args.run.call.input]
  /\ UNCHANGED <<simpleBoard, args>>

\* findAdjacentPointsInChain(board, x, y) is called: [] for an absent point,
\* the three lists before the while loop otherwise.
StartFlood ==
  /\ op = "boardStateFromSimpleBoard"
  /\ \E x \in 0 .. LengthOf(boardState.board) - 1, y \in 0 .. LengthOf(boardState.board) - 1 :
       /\ args' = [NoArgs EXCEPT !.x = x, !.y = y]
       /\ IF At(boardState.board, x, y) = Null
            THEN op' = "findAdjacentPointsInChain" /\ ret' = <<>>
            ELSE /\ op' = "findAdjacentPointsInChain.while"
                 /\ ret' = [checked |-> {}, adjacent |-> <<<<x, y>>>>, stack |-> <<<<x, y>>>>]
  /\ UNCHANGED <<simpleBoard, boardState>>

\* One turn of the while loop.
FloodStep ==
  /\ op = "findAdjacentPointsInChain.while"
  /\ Len(ret.stack) > 0
  /\ ret' = floodStep(boardState.board, ret)
  /\ UNCHANGED <<simpleBoard, boardState, op, args>>

\* The while loop is left: adjacentPoints is returned.
FloodReturn ==
  /\ op = "findAdjacentPointsInChain.while"
  /\ Len(ret.stack) = 0
  /\ op' = "findAdjacentPointsInChain"
  /\ ret' = ret.adjacent
  /\ UNCHANGED <<simpleBoard, boardState, args>>

NextLive ==
  \/ SetGame
  \/ CallGetMove
  \/ WaitCycle
  \/ PatternSleep
  \/ LastWaitCycle
  \/ StartFlood
  \/ FloodStep
  \/ FloodReturn

\* Every await of the pacing hook is over in the end, and the code between
\* two awaits runs to its end.
SpecLive ==
  /\ InitLive
  /\ [][NextLive]_vars
  /\ WF_vars(WaitCycle)
  /\ WF_vars(PatternSleep)
  /\ WF_vars(LastWaitCycle)
  /\ WF_vars(FloodStep)
  /\ WF_vars(FloodReturn)

FastScenarioBoards ==
  {SimpleBoardOf({<<1, 0>>, <<2, 1>>, <<1, 2>>}, {<<0, 1>>, <<2, 2>>},
                 (<<0, 1>> :> "O") @@ (<<2, 2>> :> "O")),
   SimpleBoardOf({}, {<<0, 1>>, <<1, 0>>, <<2, 2>>, <<2, 1>>, <<1, 2>>},
                 (<<0, 1>> :> "O") @@ (<<1, 0>> :> "O") @@ (<<2, 2>> :> "O")
                   @@ (<<2, 1>> :> "X") @@ (<<1, 2>> :> "X")),
   SimpleBoardOf({}, {<<0, 1>>, <<1, 0>>, <<0, 2>>, <<1, 1>>},
                 (<<0, 1>> :> "O") @@ (<<1, 0>> :> "X") @@ (<<0, 2>> :> "X")
                   @@ (<<1, 1>> :> "X")),
   SimpleBoardOf({}, {<<0, 1>>, <<1, 0>>, <<0, 2>>, <<1, 1>>, <<2, 0>>},
                 (<<0, 1>> :> "X") @@ (<<1, 0>> :> "X") @@ (<<0, 2>> :> "O")
                   @@ (<<1, 1>> :> "O") @@ (<<2, 0>> :> "O")),
   SimpleBoardOf({}, {<<1, 0>>, <<0, 1>>, <<2, 1>>, <<1, 2>>, <<0, 0>>, <<2, 0>>},
                 (<<1, 0>> :> "O") @@ (<<0, 1>> :> "X") @@ (<<2, 1>> :> "X")
                   @@ (<<1, 2>> :> "O") @@ (<<0, 0>> :> "O") @@ (<<2, 0>> :> "O"))}

InitFast ==
  /\ simpleBoard \in SimpleBoards(FastMaxMarked, FastMaxOffline) \cup FastScenarioBoards
  /\ boardState = boardStateFromSimpleBoard(simpleBoard, "Illuminati")
  /\ op = "boardStateFromSimpleBoard"
  /\ args = NoArgs
  /\ ret = <<>>

SpecFast == InitFast /\ [][NextValid]_vars

\* The classification of the call that was made, by the other path.
OtherPath(state, x, y, player, shortcut) ==
  evaluateIfMoveIsValid(state, x, y, player, ~shortcut)

\* C27: for every BoardState whose chain ids and liberties are up to date,
\* every (x,y), player and history, evaluateIfMoveIsValid returns the same
\* classification with shortcut = true and with shortcut = false.
C27_FastEqualsSlow ==
  op = "evaluateIfMoveIsValid"
    => ret = OtherPath(boardState, args.x, args.y, args.player, args.flag)

\* The same on the positions of a game only: every stone chain has a
\* liberty.
FastEqualsSlowInGame ==
  (op = "evaluateIfMoveIsValid" /\ NoDeadChain(boardState.board))
    => ret = OtherPath(boardState, args.x, args.y, args.player, args.flag)

\* The fast path called a placement without an Empty neighbour valid, on a
\* position of a game.
FastPathCapture ==
  /\ op = "evaluateIfMoveIsValid"
  /\ args.flag
  /\ NoDeadChain(boardState.board)
  /\ ret = "valid"
  /\ \A q \in Live(boardState.board) :
       Adjacent(q, <<args.x, args.y>>) => boardState.board[q].color # "Empty"

\* ------------------------------------- the effective liberties, as a machine
InitEffective ==
  /\ simpleBoard \in SimpleBoards(EffectiveMaxMarked, EffectiveMaxOffline)
  /\ boardState = boardStateFromSimpleBoard(simpleBoard, "Illuminati")
  /\ op = "boardStateFromSimpleBoard"
  /\ args = NoArgs
  /\ ret = <<>>

\* findEffectiveLibertiesOfNewMove(board, x, y, player)
FindEffectiveLibertiesOfNewMove ==
  /\ op = "boardStateFromSimpleBoard"
  /\ \E p \in DOMAIN boardState.board, player \in Players :
       /\ ret' = findEffectiveLibertiesOfNewMove(boardState.board, p[1], p[2], player)
       /\ args' = [NoArgs EXCEPT !.x = p[1], !.y = p[2], !.player = player]
  /\ op' = "findEffectiveLibertiesOfNewMove"
  /\ UNCHANGED <<simpleBoard, boardState>>

NextEffective == FindEffectiveLibertiesOfNewMove

SpecEffective == InitEffective /\ [][NextEffective]_vars

\* A stone of the opponent of player is gone from result.
CapturedIn(board, result, player) ==
  \E q \in Live(board) : board[q].color = OpposingOf(player) /\ result[q].color = "Empty"

\* The liberties of the chain of p as result records them.
ChainLibertiesIn(result, p) == PointsOf(LibertiesOrEmpty(result[p].liberties))

\* The rule of the claim, result being evaluateMoveResult(board, p, player).
EffectiveAgainst(board, result, p, player, liberties) ==
  /\ (~CapturedIn(board, result, player) /\ result[p].color = player)
       => PointsOf(liberties) = ChainLibertiesIn(result, p)
  /\ CapturedIn(board, result, player)
       => PointsOf(liberties) \subseteq ChainLibertiesIn(result, p)

EffectiveRule(board, p, player, liberties) ==
  board[p].color = "Empty"
    => EffectiveAgainst(board, evaluateMoveResult(board, p[1], p[2], player, FALSE).result,
                        p, player, liberties)

\* C28: for an Empty point p and a player on a board with up-to-date chains,
\* if the placement captures no opposing chain and the stone survives,
\* findEffectiveLibertiesOfNewMove gives exactly the liberties of the chain of
\* the placed stone in evaluateMoveResult; if the placement captures, every
\* effective liberty is a liberty of that chain in the result.
C28_EffectiveLiberties ==
  op = "findEffectiveLibertiesOfNewMove"
    => EffectiveRule(boardState.board, <<args.x, args.y>>, args.player, ret)

\* The effective liberties of a placement beside a friendly stone that
\* captures nothing, and those of a placement that captures.
JoinsFriend(board, result, p, player, liberties) ==
  /\ board[p].color = "Empty"
  /\ \E q \in Live(board) : Adjacent(p, q) /\ board[q].color = player
  /\ ~CapturedIn(board, result, player)
  /\ result[p].color = player
  /\ Len(liberties) >= 2

C28_Witness ==
  /\ op = "findEffectiveLibertiesOfNewMove"
  /\ JoinsFriend(boardState.board,
                 evaluateMoveResult(boardState.board, args.x, args.y, args.player, FALSE).result,
                 <<args.x, args.y>>, args.player, ret)

\* The neighbouring chains of candidate that the test on the spreads rejects
\* and that the test on the evaluation board accepts.
RejectedByBoxAlone(board, allChains, candidate) ==
  {index \in 1 .. Len(candidate.neighbors) :
     /\ ~couldWrap(board, candidate.chain, candidate.neighbors[index])
     /\ encirclesAlone(board, candidate.chain, candidate.neighbors, allChains, index)}

BoxIsOptimisation(board, allChains, eyeCandidates) ==
  \A k \in 1 .. Len(eyeCandidates) :
    Len(eyeCandidates[k].neighbors) > 1
      => RejectedByBoxAlone(board, allChains, eyeCandidates[k]) = {}

\* C29: for every eye candidate with more than one neighbouring chain, a
\* neighbouring chain that the bounding-box test rejects fails the full test
\* too, so that getAllEyesByChainId returns the same eyes with and without
\* the bounding-box test.
C29_BoxIsOptimisation ==
  op = "getAllEyesByChainId"
    => BoxIsOptimisation(boardState.board, getAllChains(boardState.board),
                         getAllPotentialEyes(boardState.board, getAllChains(boardState.board),
                                             args.player))

\* ------------------------------------------------ a placement, as a machine
InitPlacement ==
  /\ simpleBoard \in SimpleBoards(PlacementMaxMarked, PlacementMaxOffline)
  /\ boardState = boardStateFromSimpleBoard(simpleBoard, "Illuminati")
  /\ op = "boardStateFromSimpleBoard"
  /\ args = NoArgs
  /\ ret = <<>>

\* evaluateMoveResult(board, x, y, player) with resetChains left at its
\* default: boardState.board is the object given, ret the board returned.
EvaluateMoveResultByDefault ==
  /\ op = "boardStateFromSimpleBoard"
  /\ \E p \in DOMAIN boardState.board, player \in Players :
       /\ ret' = evaluateMoveResult(boardState.board, p[1], p[2], player, FALSE).result
       /\ boardState' = [boardState EXCEPT !.board =
                           evaluateMoveResult(boardState.board, p[1], p[2], player, FALSE).input]
       /\ args' = [NoArgs EXCEPT !.x = p[1], !.y = p[2], !.player = player]
  /\ op' = "evaluateMoveResult"
  /\ UNCHANGED simpleBoard

NextPlacement == EvaluateMoveResultByDefault

SpecPlacement == InitPlacement /\ [][NextPlacement]_vars

\* The colours of the stones of board that are gone from result.
RemovedColors(board, result) ==
  {board[q].color : q \in {r \in Live(board) : board[r].color \in Players
                                                 /\ result[r].color = "Empty"}}

\* The chain ids and liberty sets of result are those of full.
SameChainData(result, full) ==
  \A q \in Live(result) :
    /\ result[q].chain = full[q].chain
    /\ PointsOf(LibertiesOrEmpty(result[q].liberties))
         = PointsOf(LibertiesOrEmpty(full[q].liberties))

PlacementRule(board, result) ==
  /\ \A q \in Live(result) : result[q].color \in Players => RuleLiberties(result, q) # {}
  /\ Cardinality(RemovedColors(board, result)) <= 1
  /\ SameChainData(result, updateChains(result, TRUE))

\* C30: if every stone chain of the input board has a liberty, its chain
\* data is up to date and (x,y) is Empty, then in the board that
\* evaluateMoveResult(board, x, y, player) returns every stone chain has an
\* adjacent Empty point, stones of at most one colour were removed, and the
\* chain ids and liberty sets are those a full updateChains assigns.
C30_NoDeadStones ==
  (/\ op = "evaluateMoveResult"
   /\ NoDeadChain(boardState.board)
   /\ boardState.board[<<args.x, args.y>>].color = "Empty")
    => PlacementRule(boardState.board, ret)

\* A placement on a position of a game that removed stones, beside a chain
\* that stays.
C30_Witness ==
  /\ op = "evaluateMoveResult"
  /\ NoDeadChain(boardState.board)
  /\ boardState.board[<<args.x, args.y>>].color = "Empty"
  /\ RemovedColors(boardState.board, ret) # {}
  /\ \E q \in Live(ret) : ret[q].color = args.player /\ Adjacent(q, <<args.x, args.y>>)
====
